---------------------------- MODULE Spec2Model ----------------------------
(***************************************************************************)
(* Estate_AI: the ingestion core, database/ingest.py ingest_bulk_results,  *)
(* over the tables of database/models.py and the session of                *)
(* database/connection.py.                                                 *)
(*                                                                         *)
(* One batch is StartBatch (lines 71-85), one ProcessRow per record of the *)
(* input list in input order (lines 87-222), and Finalize (lines 224-232   *)
(* with the exit of get_session).  The tables properties, listings,        *)
(* raw_scrapes and scrape_runs are the rows as the open session's          *)
(* transaction sees them; committed is what the database file holds.       *)
(*                                                                         *)
(* Optional values (Python None or a value) are <<>> or <<v>>.  Strings    *)
(* that the code parses character by character (price, bedrooms,           *)
(* bathrooms) are sequences of one-character strings.                      *)
(***************************************************************************)
EXTENDS Integers, Sequences, FiniteSets, Bags, TLC

\* ------------------------------------------------------------- bounds
\* Calls of ingest_bulk_results per behaviour, and records over all calls.
MaxBatches == 2
MaxRecords == 2

\* ------------------------------------------------------------ values
None == <<>>
Some(v) == <<v>>
IsNone(o) == o = <<>>
Val(o) == o[1]

\* Python truthiness of an optional string: None and "" are falsy.
TruthyStr(o) == o /= None /\ Val(o) /= ""
\* Python truthiness of an optional number: None and 0 are falsy.
TruthyNum(o) == o /= None /\ Val(o) /= 0

\* a or b or c on optional strings (ingest.py line 105).
OrStr(a, b) == IF TruthyStr(a) THEN a ELSE b

\* ----------------------------------------------- _parse_price, _parse_int
DigitChars == {"0", "1", "2", "3", "4", "5", "6", "7", "8", "9"}

DigitValue(c) ==
    CASE c = "0" -> 0 [] c = "1" -> 1 [] c = "2" -> 2 [] c = "3" -> 3
      [] c = "4" -> 4 [] c = "5" -> 5 [] c = "6" -> 6 [] c = "7" -> 7
      [] c = "8" -> 8 [] c = "9" -> 9

IsDigit(c) == c \in DigitChars
IsDigitOrDot(c) == c \in DigitChars \cup {"."}
IsDot(c) == c = "."

\* int() of a non-empty string of digits.
RECURSIVE DigitsToNat(_)
DigitsToNat(s) ==
    IF s = <<>> THEN 0
    ELSE 10 * DigitsToNat(SubSeq(s, 1, Len(s) - 1)) + DigitValue(s[Len(s)])

\* A float is kept exactly as n / 10^k with no trailing zero in the fraction,
\* so that "2000" and "2000.0" are the same number.
RECURSIVE NormFloat(_, _)
NormFloat(n, k) ==
    IF k > 0 /\ n % 10 = 0 THEN NormFloat(n \div 10, k - 1)
    ELSE [n |-> n, k |-> k]

\* Index of the first "." of s, 0 when there is none.
DotIndex(s) ==
    IF \E i \in 1..Len(s) : s[i] = "."
    THEN CHOOSE i \in 1..Len(s) : s[i] = "." /\ \A j \in 1..(i - 1) : s[j] /= "."
    ELSE 0

\* float(s) for s of digits and dots: None where Python raises ValueError
\* (no digit at all, or more than one dot).
FloatOf(s) ==
    LET dots == Len(SelectSeq(s, IsDot))
        digs == SelectSeq(s, IsDigit)
        d == DotIndex(s)
    IN IF dots > 1 \/ digs = <<>> THEN None
       ELSE Some(NormFloat(DigitsToNat(digs), IF d = 0 THEN 0 ELSE Len(s) - d))

\* ingest.py _parse_price: price_raw is None or the characters of str(price_raw).
ParsePrice(price_raw) ==
    IF IsNone(price_raw) THEN None
    ELSE LET s == SelectSeq(Val(price_raw), IsDigitOrDot)
         IN IF s = <<>> THEN None ELSE FloatOf(s)

\* ingest.py _parse_int.
ParseInt(value) ==
    IF IsNone(value) THEN None
    ELSE LET s == SelectSeq(Val(value), IsDigit)
         IN IF s = <<>> THEN None ELSE Some(DigitsToNat(s))


\* ------------------------------------------------------------- inputs
\* The records a scraper can deliver (spec section 6: url, and optional
\* strings or numbers).  attrs are the scraped attributes; two bundles of
\* them and the url-only record that scrape_property returns on a timeout.
Chars2000 == <<"£", "2", ",", "0", "0", "0">>
Chars2200 == <<"£", "2", ",", "2", "0", "0">>

AttrsTimeout ==
    [price |-> None, bedrooms |-> None, bathrooms |-> None,
     property_type |-> None, description |-> None, floor_area_sqm |-> None,
     year_built |-> None, energy_rating |-> None, refurb_intensity |-> None,
     raw_text |-> None]

AttrsFlat ==
    [price |-> Some(Chars2000), bedrooms |-> Some(<<"2">>), bathrooms |-> Some(<<"1">>),
     property_type |-> Some("Flat"), description |-> Some("d1"),
     floor_area_sqm |-> Some(50), year_built |-> Some(1990),
     energy_rating |-> Some("C"), refurb_intensity |-> Some("light"),
     raw_text |-> Some("body1")]

\* A studio with 0 bedrooms and no floor area given as 0: values that are
\* not None but falsy in Python, beside other values that differ from the flat's.
AttrsStudio ==
    [price |-> Some(Chars2200), bedrooms |-> Some(<<"0", " ", "b", "e", "d">>),
     bathrooms |-> Some(<<"3">>),
     property_type |-> Some("Studio"), description |-> Some(""),
     floor_area_sqm |-> Some(0), year_built |-> Some(2001),
     energy_rating |-> Some(""), refurb_intensity |-> Some("full"),
     raw_text |-> None]

AttrBundles == {AttrsTimeout, AttrsFlat, AttrsStudio}

Urls == {Some("u1"), Some("u2")}
NoUrls == {None, Some("")}

\* address and title of a record: the address, or only a title, or neither.
Places ==
    {[address |-> Some("a1"), title |-> None],
     [address |-> None, title |-> Some("a1")],
     [address |-> None, title |-> None]}

\* dbfail: which flush of this record the database rejects: "property" the
\* flush of line 181, "listing" the flush of line 203.  A bedrooms string of
\* twenty digits does it (int() succeeds, SQLite's INTEGER overflows), as does
\* a description the driver cannot encode, or an I/O error.
Rows ==
    {[url |-> u, place |-> pl, attrs |-> a, dbfail |-> "none"] :
        u \in Urls, pl \in Places, a \in AttrBundles}
    \cup
    {[url |-> u, place |-> pl, attrs |-> AttrsFlat, dbfail |-> "none"] :
        u \in NoUrls, pl \in {[address |-> Some("a1"), title |-> None]}}
    \cup
    {[url |-> u, place |-> pl, attrs |-> AttrsFlat, dbfail |-> f] :
        u \in Urls, pl \in Places \ {[address |-> None, title |-> Some("a1")]},
        f \in {"property", "listing"}}

\* The arguments of a call: (portal, listing_type); location_query is fixed.
BatchArgs ==
    {[portal |-> "rightmove", listing_type |-> "sale"],
     [portal |-> "zoopla", listing_type |-> "rent"]}

LocationQuery == "London, pages=1"

\* -------------------------------------------------------------- state
VARIABLES
    pc,            \* "idle": no call in progress; "loop": inside the for loop
    now,           \* datetime.utcnow(), a logical clock
    batches,       \* calls of ingest_bulk_results started so far
    records,       \* records handed to those calls, over all of them
    args,          \* portal and listing_type of the current call
    total,         \* line 71
    idx,           \* records of the input list already processed
    success,       \* line 72
    error,         \* line 73
    scrape_run,    \* the ScrapeRun object of the current call, None before
    run_id,        \* its primary key after the flush of line 85
    active,        \* FALSE once a failed flush has rolled the transaction back
    properties,    \* table properties, as the session's transaction sees it
    listings,      \* table listings
    raw_scrapes,   \* table raw_scrapes
    scrape_runs,   \* table scrape_runs
    committed,     \* the four tables as committed to the database
    outcome,       \* of the last call: "none", "returned" or "raised"
    ret,           \* the triple the last call returned
    last,          \* history: the record just processed and what became of it
    nourl,         \* history: records of this call rejected at line 89
    okUrls,        \* history: urls of the records this call counted as success
    \* pipelines/build_rent_benchmarks.py
    bench_listings,   \* the committed Listing rows that the aggregator reads
    rent_benchmarks,  \* table rent_benchmarks, a bag of rows (ids left out)
    created,          \* what the last build_rent_benchmarks call returned
    builds,           \* calls of build_rent_benchmarks so far
    prev_build,       \* history: input and buckets of the call before
    \* scraper/sources/rightmove_scraper.py
    body_text,     \* the page's text, one token per line
    body_parsed,   \* what parse_from_body_text returned for it, None before
    record,        \* the record scrape_property returned for it, None before
    \* database/ingest.py _parse_price on its own
    price_raw,     \* the argument, None or the characters of str(price_raw)
    price_out,     \* [called, raised, value] of the call on it
    \* scraper/sources/rightmove_scraper.py fetch_links and scrape_property
    page_hrefs,    \* the href of each card of the result pages, in page order
    links,         \* the list fetch_links returned, None before
    scraped,       \* the record scrape_property returned for a link, None before
    \* build_rent_benchmarks statement by statement, and a reader
    build_pc,      \* "idle", "deleted" after line 28, "added" after line 87
    build_min,     \* min_listings_per_bucket of the call in progress
    build_session, \* the call's session: its transaction's table, its new objects
    read,          \* the last read of another session: [during, rows, session]
    \* database/crud.py get_or_create_property and get_or_create_market
    markets,        \* table markets
    resolved,       \* the last call of the two: [fn, raised, id]
    resolver_calls, \* calls of the two so far
    \* ingest_bulk_results on two sessions at a time; rows by their keys
    sess_pc,       \* of each session: "idle", "loop", "returned" or "raised"
    sess_rows,     \* the input list of each session's call
    sess_idx,      \* records each call has processed
    sess_active,   \* FALSE once a failed flush rolled the session back
    sess_tx,       \* the rows each session's transaction has inserted
    store_keys,    \* the committed Property and Listing rows, by their keys
    writer         \* the session whose transaction holds the write lock, 0: none

ingestVars == <<pc, now, batches, records, args, total, idx, success, error,
                scrape_run, run_id, active, properties, listings, raw_scrapes,
                scrape_runs, committed, outcome, ret, last, nourl, okUrls>>
benchVars == <<bench_listings, rent_benchmarks, created, builds, prev_build>>
textVars == <<body_text, body_parsed, record>>
priceVars == <<price_raw, price_out>>
scrapeVars == <<page_hrefs, links, scraped>>
rebuildVars == <<build_pc, build_min, build_session, read>>
resolverVars == <<markets, resolved, resolver_calls>>
overlapVars == <<sess_pc, sess_rows, sess_idx, sess_active, sess_tx, store_keys, writer>>

vars == <<ingestVars, benchVars, textVars, priceVars, scrapeVars, rebuildVars,
         resolverVars, overlapVars>>

\* What the steps of one part of the program leave alone: the state of the
\* other parts.
outsideIngest ==
    <<benchVars, textVars, priceVars, scrapeVars, rebuildVars, resolverVars, overlapVars>>
outsideBench ==
    <<ingestVars, textVars, priceVars, scrapeVars, rebuildVars, resolverVars, overlapVars>>
outsideText ==
    <<ingestVars, benchVars, priceVars, scrapeVars, rebuildVars, resolverVars, overlapVars>>
outsidePrice ==
    <<ingestVars, benchVars, textVars, scrapeVars, rebuildVars, resolverVars, overlapVars>>
outsideScrape ==
    <<ingestVars, benchVars, textVars, priceVars, rebuildVars, resolverVars, overlapVars>>
outsideRebuild ==
    <<ingestVars, textVars, priceVars, scrapeVars, resolverVars, overlapVars>>
outsideResolver ==
    <<benchVars, textVars, priceVars, scrapeVars, rebuildVars, overlapVars>>
outsideOverlap ==
    <<ingestVars, benchVars, textVars, priceVars, scrapeVars, rebuildVars, resolverVars>>

\* Table rent_benchmarks after create_all.  The RentBenchmark model is used by
\* build_rent_benchmarks.py and seed_benchmarks.py and declared in no file of
\* the source tree; the table is the one of the specification's sections 3
\* and 6, with the columns that the two callers set.
EmptyRentBenchmarks == EmptyBag

\* The parts of the state that a specification does not use stay at these.
BenchIdle ==
    /\ bench_listings = <<>>
    /\ rent_benchmarks = EmptyRentBenchmarks
    /\ created = 0
    /\ builds = 0
    /\ prev_build = None
TextIdle == body_text = <<>> /\ body_parsed = None /\ record = None
PriceIdle ==
    /\ price_raw = None
    /\ price_out = [called |-> FALSE, raised |-> FALSE, value |-> None]
ScrapeIdle == page_hrefs = <<>> /\ links = None /\ scraped = None
RebuildIdle ==
    /\ build_pc = "idle"
    /\ build_min = 0
    /\ build_session = [table |-> EmptyRentBenchmarks, new |-> EmptyRentBenchmarks]
    /\ read = None

ResolverIdle ==
    /\ markets = <<>>
    /\ resolved = [fn |-> "none", raised |-> FALSE, id |-> 0]
    /\ resolver_calls = 0

Sessions == {1, 2}
NoKeys == [properties |-> <<>>, listings |-> <<>>]
OverlapIdle ==
    /\ sess_pc = [s \in Sessions |-> "idle"]
    /\ sess_rows = [s \in Sessions |-> <<>>]
    /\ sess_idx = [s \in Sessions |-> 0]
    /\ sess_active = [s \in Sessions |-> TRUE]
    /\ sess_tx = [s \in Sessions |-> NoKeys]
    /\ store_keys = NoKeys
    /\ writer = 0

EmptyStore ==
    [properties |-> <<>>, listings |-> <<>>, raw_scrapes |-> <<>>,
     scrape_runs |-> <<>>]

\* The value of last while no record has been processed.
NoRecord == [row |-> None, kind |-> "none"]

\* The database after init_db(): the tables exist and are empty.
IngestInit ==
    /\ pc = "idle"
    /\ now = 0
    /\ batches = 0
    /\ records = 0
    /\ args = [portal |-> "rightmove", listing_type |-> "sale"]
    /\ total = 0
    /\ idx = 0
    /\ success = 0
    /\ error = 0
    /\ scrape_run = None
    /\ run_id = 0
    /\ active = TRUE
    /\ properties = <<>>
    /\ listings = <<>>
    /\ raw_scrapes = <<>>
    /\ scrape_runs = <<>>
    /\ committed = EmptyStore
    /\ outcome = "none"
    /\ ret = <<0, 0, 0>>
    /\ last = NoRecord
    /\ nourl = 0
    /\ okUrls = {}

\* The other parts of the program at rest, for each part.
OutsideIngestIdle ==
    BenchIdle /\ TextIdle /\ PriceIdle /\ ScrapeIdle /\ RebuildIdle /\ ResolverIdle
    /\ OverlapIdle
OutsideBenchIdle ==
    IngestInit /\ TextIdle /\ PriceIdle /\ ScrapeIdle /\ RebuildIdle /\ ResolverIdle
    /\ OverlapIdle
OutsideTextIdle ==
    IngestInit /\ BenchIdle /\ PriceIdle /\ ScrapeIdle /\ RebuildIdle /\ ResolverIdle
    /\ OverlapIdle
OutsidePriceIdle ==
    IngestInit /\ BenchIdle /\ TextIdle /\ ScrapeIdle /\ RebuildIdle /\ ResolverIdle
    /\ OverlapIdle
OutsideScrapeIdle ==
    IngestInit /\ BenchIdle /\ TextIdle /\ PriceIdle /\ RebuildIdle /\ ResolverIdle
    /\ OverlapIdle
OutsideRebuildIdle ==
    IngestInit /\ TextIdle /\ PriceIdle /\ ScrapeIdle /\ ResolverIdle
    /\ OverlapIdle
OutsideResolverIdle ==
    BenchIdle /\ TextIdle /\ PriceIdle /\ ScrapeIdle /\ RebuildIdle
    /\ OverlapIdle
OutsideOverlapIdle ==
    IngestInit /\ BenchIdle /\ TextIdle /\ PriceIdle /\ ScrapeIdle /\ RebuildIdle
    /\ ResolverIdle

Init == IngestInit /\ OutsideIngestIdle


\* ------------------------------------------------- ingest_bulk_results
\* Line 105 without the url as the last resort.
AddressOfNoUrl(row) ==
    IF TruthyStr(OrStr(row.place.address, row.place.title))
    THEN Val(OrStr(row.place.address, row.place.title)) ELSE ""

\* Line 105: address = row.get("address") or title or url.
AddressOf(row) == Val(OrStr(OrStr(row.place.address, row.place.title), row.url))

\* Line 106: description = row.get("description") or "".
DescriptionOf(row) ==
    IF TruthyStr(row.attrs.description) THEN Val(row.attrs.description) ELSE ""

\* Line 206: raw_text = row.get("raw_text") or description.
RawTextOf(row) ==
    IF TruthyStr(row.attrs.raw_text) THEN Val(row.attrs.raw_text)
    ELSE DescriptionOf(row)

\* Lines 88-89: if not url.
MissingUrlNoneOnly(row) == row.url = None
MissingUrl(row) == ~TruthyStr(row.url)

\* Lines 110-112: the ids of the Listing rows the select by url matches.
ListingsByUrlAndPortal(url) ==
    {i \in DOMAIN listings :
        listings[i].url = url /\ listings[i].portal = args.portal}
ListingsByUrl(url) == {i \in DOMAIN listings : listings[i].url = url}

\* Lines 142-144: the ids of the Property rows the select by full_address matches.
PropertiesByPostcode(address) ==
    {i \in DOMAIN properties : properties[i].postcode = Some(address)}
PropertiesByAddress(address) ==
    {i \in DOMAIN properties : properties[i].full_address = address}

\* The update of crud.py lines 288-294 in its place: everything overwritten.
UpdateListingAll(l, price, bedrooms, bathrooms, rid, t) ==
    [l EXCEPT
       !.price = price, !.bedrooms = bedrooms, !.bathrooms = bathrooms,
       !.last_seen_at = t, !.scrape_run_id = rid]

\* Lines 116-123 with the Listing stamped like a new one.
UpdateListingAsNew(l, price, bedrooms, bathrooms, rid, t) ==
    [l EXCEPT
       !.price = IF price /= None THEN price ELSE @,
       !.bedrooms = IF bedrooms /= None THEN bedrooms ELSE @,
       !.bathrooms = IF bathrooms /= None THEN bathrooms ELSE @,
       !.first_seen_at = t,
       !.last_seen_at = t,
       !.scrape_run_id = rid]

\* Lines 116-123: the update of an existing Listing.
UpdateListing(l, price, bedrooms, bathrooms, rid, t) ==
    [l EXCEPT
       !.price = IF price /= None THEN price ELSE @,
       !.bedrooms = IF bedrooms /= None THEN bedrooms ELSE @,
       !.bathrooms = IF bathrooms /= None THEN bathrooms ELSE @,
       !.last_seen_at = t,
       !.scrape_run_id = rid]

\* Lines 128-135 without line 136.
RescrapeFillOnly(p, a, t) ==
    [p EXCEPT
       !.floor_area_sqm =
           IF a.floor_area_sqm /= None /\ ~TruthyNum(@) THEN a.floor_area_sqm ELSE @,
       !.year_built =
           IF a.year_built /= None /\ ~TruthyNum(@) THEN a.year_built ELSE @,
       !.energy_rating =
           IF TruthyStr(a.energy_rating) /\ ~TruthyStr(@) THEN a.energy_rating ELSE @,
       !.refurb_intensity =
           IF TruthyStr(a.refurb_intensity) /\ ~TruthyStr(@) THEN a.refurb_intensity ELSE @]

\* Lines 128-136: the Property of an existing Listing.
RescrapeFill(p, a, t) ==
    [p EXCEPT
       !.floor_area_sqm =
           IF a.floor_area_sqm /= None /\ ~TruthyNum(@) THEN a.floor_area_sqm ELSE @,
       !.year_built =
           IF a.year_built /= None /\ ~TruthyNum(@) THEN a.year_built ELSE @,
       !.energy_rating =
           IF TruthyStr(a.energy_rating) /\ ~TruthyStr(@) THEN a.energy_rating ELSE @,
       !.refurb_intensity =
           IF TruthyStr(a.refurb_intensity) /\ ~TruthyStr(@) THEN a.refurb_intensity ELSE @,
       !.last_seen_at = t]

\* Lines 148-163: an existing Property found by full_address.
FillProperty(p, bedrooms, bathrooms, a, t) ==
    [p EXCEPT
       !.property_type =
           IF TruthyStr(a.property_type) /\ ~TruthyStr(@) THEN a.property_type ELSE @,
       !.bedrooms = IF bedrooms /= None /\ ~TruthyNum(@) THEN bedrooms ELSE @,
       !.bathrooms = IF bathrooms /= None /\ ~TruthyNum(@) THEN bathrooms ELSE @,
       !.floor_area_sqm =
           IF a.floor_area_sqm /= None /\ ~TruthyNum(@) THEN a.floor_area_sqm ELSE @,
       !.year_built =
           IF a.year_built /= None /\ ~TruthyNum(@) THEN a.year_built ELSE @,
       !.energy_rating =
           IF TruthyStr(a.energy_rating) /\ ~TruthyStr(@) THEN a.energy_rating ELSE @,
       !.refurb_intensity =
           IF TruthyStr(a.refurb_intensity) /\ ~TruthyStr(@) THEN a.refurb_intensity ELSE @,
       !.last_seen_at = t]

\* Lines 167-179, with the column defaults of models.py lines 107-108.
NewProperty(address, bedrooms, bathrooms, a, t) ==
    [full_address |-> address, postcode |-> None, city |-> None,
     property_type |-> a.property_type, bedrooms |-> bedrooms,
     bathrooms |-> bathrooms, floor_area_sqm |-> a.floor_area_sqm,
     year_built |-> a.year_built, energy_rating |-> a.energy_rating,
     refurb_intensity |-> a.refurb_intensity,
     first_seen_at |-> t, last_seen_at |-> t]

\* Lines 184-201.
NewListing(pid, rid, row, price, bedrooms, bathrooms, t) ==
    [property_id |-> pid, scrape_run_id |-> rid, portal |-> args.portal,
     url |-> Val(row.url), listing_type |-> args.listing_type,
     status |-> "active", price |-> price, currency |-> "GBP",
     bedrooms |-> bedrooms, bathrooms |-> bathrooms,
     property_type |-> row.attrs.property_type,
     description |-> DescriptionOf(row),
     first_seen_at |-> t, last_seen_at |-> t]

\* Lines 206-216.
NewRawScrape(lid, row, t) ==
    [listing_id |-> lid, scraped_at |-> t, raw_text |-> RawTextOf(row)]

\* Lines 77-83 with the status left to the column default of models.py.
NewScrapeRunDefault(a, n, t) ==
    [portal |-> a.portal, location_query |-> LocationQuery, started_at |-> t,
     finished_at |-> None, total_listings |-> n, success_count |-> 0,
     error_count |-> 0, status |-> "success"]

\* Lines 77-83, with the column defaults of models.py lines 200-201.
NewScrapeRun(a, n, t) ==
    [portal |-> a.portal, location_query |-> LocationQuery, started_at |-> t,
     finished_at |-> None, total_listings |-> n, success_count |-> 0,
     error_count |-> 0, status |-> "running"]

\* Line 228 with the status name of the other ingest variants.
FinalStatusPartial(err) == IF err = 0 THEN "success" ELSE "partial"

\* Line 228.
FinalStatus(err) == IF err = 0 THEN "success" ELSE "completed_with_errors"

\* Lines 225-227 without line 228: the counters are stored, the status stays.
FinalizeRunCounters(run, succ, err, t) ==
    [run EXCEPT !.finished_at = Some(t), !.success_count = succ,
                !.error_count = err]

\* Lines 225-228.
FinalizeRun(run, succ, err, t) ==
    [run EXCEPT !.finished_at = Some(t), !.success_count = succ,
                !.error_count = err, !.status = FinalStatus(err)]

\* Lines 88-222 for one record: what the iteration does to the tables.
\*   kind "nourl":   lines 89-91, rejected before the try block
\*   kind "raised":  an exception other than a failed flush (the session's
\*                   transaction is inactive, or a select matches two rows)
\*   kind "flush":   the flush of line 181 or 203 failed
\*   kind "updated": lines 114-139;  kind "created": lines 141-219
RowEffect(row) ==
    LET same == [kind |-> "raised", properties |-> properties,
                 listings |-> listings, raw_scrapes |-> raw_scrapes]
        price == ParsePrice(row.attrs.price)
        bedrooms == ParseInt(row.attrs.bedrooms)
        bathrooms == ParseInt(row.attrs.bathrooms)
        url == Val(row.url)
        address == AddressOf(row)
        ls == ListingsByUrl(url)
        ps == PropertiesByAddress(address)
    IN IF MissingUrl(row) THEN [same EXCEPT !.kind = "nourl"]
       ELSE IF ~active \/ Cardinality(ls) > 1 THEN same
       ELSE IF ls /= {} THEN
         LET lid == CHOOSE i \in ls : TRUE
             pid == listings[lid].property_id
         IN [kind |-> "updated",
             properties |->
                 [properties EXCEPT ![pid] = RescrapeFill(@, row.attrs, now)],
             listings |->
                 [listings EXCEPT
                    ![lid] = UpdateListing(@, price, bedrooms, bathrooms, run_id, now)],
             raw_scrapes |-> raw_scrapes]
       ELSE IF Cardinality(ps) > 1 THEN same
       ELSE IF ps = {} /\ row.dbfail = "property" THEN [same EXCEPT !.kind = "flush"]
       ELSE
         LET pid == IF ps = {} THEN Len(properties) + 1 ELSE CHOOSE i \in ps : TRUE
             props == IF ps = {}
                      THEN Append(properties,
                                  NewProperty(address, bedrooms, bathrooms, row.attrs, now))
                      ELSE [properties EXCEPT
                              ![pid] = FillProperty(@, bedrooms, bathrooms, row.attrs, now)]
             lid == Len(listings) + 1
         IN IF row.dbfail = "listing" THEN [same EXCEPT !.kind = "flush"]
            ELSE [kind |-> "created",
                  properties |-> props,
                  listings |->
                      Append(listings,
                             NewListing(pid, run_id, row, price, bedrooms, bathrooms, now)),
                  raw_scrapes |-> Append(raw_scrapes, NewRawScrape(lid, row, now))]

\* Lines 71-85: the call begins; the ScrapeRun is added and flushed.
StartBatch ==
    /\ pc = "idle"
    /\ batches < MaxBatches
    /\ \E a \in BatchArgs, n \in 0..(MaxRecords - records) :
         /\ args' = a
         /\ records' = records + n
         /\ total' = n
         /\ scrape_run' = Some(NewScrapeRun(a, n, now))
         /\ scrape_runs' = Append(scrape_runs, NewScrapeRun(a, n, now))
    /\ run_id' = Len(scrape_runs) + 1
    /\ pc' = "loop"
    /\ batches' = batches + 1
    /\ now' = now + 1
    /\ idx' = 0
    /\ success' = 0
    /\ error' = 0
    /\ active' = TRUE
    /\ outcome' = "none"
    /\ ret' = <<0, 0, 0>>
    /\ last' = NoRecord
    /\ nourl' = 0
    /\ okUrls' = {}
    /\ UNCHANGED <<properties, listings, raw_scrapes, committed>>
    /\ UNCHANGED outsideIngest

\* Lines 87-222: one iteration of the loop, on the next record of the list.
\* A failed flush rolls the session's transaction back (the tables are again
\* the committed ones) and leaves it inactive: the except clause of line 221
\* only counts, it does not call session.rollback().
ProcessRowOf(row) ==
    /\ pc = "loop"
    /\ idx < total
    /\ LET e == RowEffect(row)
       IN /\ success' = IF e.kind \in {"updated", "created"} THEN success + 1 ELSE success
          /\ error' = IF e.kind \in {"nourl", "raised", "flush"} THEN error + 1 ELSE error
          /\ last' = [row |-> row, kind |-> e.kind]
          /\ nourl' = IF e.kind = "nourl" THEN nourl + 1 ELSE nourl
          /\ okUrls' = IF e.kind \in {"updated", "created"}
                       THEN okUrls \cup {Val(row.url)} ELSE okUrls
          /\ active' = (active /\ e.kind /= "flush")
          /\ IF e.kind = "flush"
             THEN /\ properties' = committed.properties
                  /\ listings' = committed.listings
                  /\ raw_scrapes' = committed.raw_scrapes
                  /\ scrape_runs' = committed.scrape_runs
             ELSE /\ properties' = e.properties
                  /\ listings' = e.listings
                  /\ raw_scrapes' = e.raw_scrapes
                  /\ scrape_runs' = scrape_runs
    /\ idx' = idx + 1
    /\ UNCHANGED <<pc, now, batches, records, args, total, scrape_run, run_id,
                   committed, outcome, ret>>
    /\ UNCHANGED outsideIngest

ProcessRow == \E row \in Rows : ProcessRowOf(row)

\* Lines 224-232 and the exit of get_session (connection.py lines 50-56):
\* the run is finalized and the transaction committed; on an inactive
\* transaction commit() raises, get_session rolls back and re-raises.
Finalize ==
    /\ pc = "loop"
    /\ idx = total
    /\ scrape_run' = Some(FinalizeRun(Val(scrape_run), success, error, now))
    /\ IF active
       THEN /\ scrape_runs' =
                [scrape_runs EXCEPT ![run_id] = FinalizeRun(@, success, error, now)]
            /\ committed' =
                [properties |-> properties, listings |-> listings,
                 raw_scrapes |-> raw_scrapes, scrape_runs |-> scrape_runs']
            /\ outcome' = "returned"
            /\ ret' = <<total, success, error>>
       ELSE /\ scrape_runs' = committed.scrape_runs
            /\ committed' = committed
            /\ outcome' = "raised"
            /\ ret' = ret
    /\ pc' = "idle"
    /\ active' = TRUE
    /\ last' = NoRecord
    /\ UNCHANGED <<now, batches, records, args, total, idx, success, error, run_id,
                   properties, listings, raw_scrapes, nourl, okUrls>>
    /\ UNCHANGED outsideIngest

Next == StartBatch \/ ProcessRow \/ Finalize

Spec == Init /\ [][Next]_vars


\* ------------------------------------------------------------- claims
\* A step that processed one record, and one that ended a call.
RowStep == idx' = idx + 1
EndStep == pc = "loop" /\ pc' = "idle"
Succeeded(l) == l.kind \in {"updated", "created"}

RowsWithAddress(ps, a) == {i \in DOMAIN ps : ps[i].full_address = a}
RowsWithUrl(ls, u) == {i \in DOMAIN ls : ls[i].url = u}
UniqueAddress(ps) ==
    \A i, j \in DOMAIN ps : ps[i].full_address = ps[j].full_address => i = j
UniqueListingKey(ls) ==
    \A i, j \in DOMAIN ls :
        (/\ ls[i].property_id = ls[j].property_id
         /\ ls[i].url = ls[j].url
         /\ ls[i].portal = ls[j].portal) => i = j

\* C1 as stated: once a record has been counted as a success, the store
\* holds exactly one Property row with that record's full_address.
C1_OneRowPerIngestedAddress ==
    Succeeded(last) =>
        Cardinality(RowsWithAddress(properties, AddressOf(last.row))) = 1

\* C1 as amended: no two Property rows share a full_address, in the session
\* and in the committed store, and a record that created a Listing leaves
\* exactly one Property row with its full_address.
C1_PropertyIdentity ==
    /\ UniqueAddress(properties)
    /\ UniqueAddress(committed.properties)
    /\ last.kind = "created" =>
           Cardinality(RowsWithAddress(properties, AddressOf(last.row))) = 1

\* Two records with the same full_address, ingested in different calls
\* under two urls, share one committed Property row.
C1_Witness ==
    /\ Len(committed.listings) = 2
    /\ Len(committed.properties) = 1
    /\ committed.listings[1].scrape_run_id /= committed.listings[2].scrape_run_id

\* C2: a successfully processed record changes no attribute of an existing
\* Property whose stored value is non-null (for a string: non-empty); the
\* number 0 is such a value.
NonNullKept(p, q) ==
    /\ TruthyStr(p.property_type) => q.property_type = p.property_type
    /\ p.bedrooms /= None => q.bedrooms = p.bedrooms
    /\ p.bathrooms /= None => q.bathrooms = p.bathrooms
    /\ p.floor_area_sqm /= None => q.floor_area_sqm = p.floor_area_sqm
    /\ p.year_built /= None => q.year_built = p.year_built
    /\ TruthyStr(p.energy_rating) => q.energy_rating = p.energy_rating
    /\ TruthyStr(p.refurb_intensity) => q.refurb_intensity = p.refurb_intensity

C2_FillOnlyNull ==
    [][(RowStep /\ Succeeded(last')) =>
          \A i \in DOMAIN properties : NonNullKept(properties[i], properties'[i])]_vars

\* C3: at most one Listing row per (property, url, portal), and a record
\* whose url already has a Listing leaves the number of Listing rows as it
\* was and, when it is counted as a success, has refreshed that row.
C3_ListingIdentity ==
    [][/\ UniqueListingKey(listings')
       /\ UniqueListingKey(committed'.listings)
       /\ (RowStep /\ ~MissingUrl(last'.row)
             /\ RowsWithUrl(listings, Val(last'.row.url)) /= {}) =>
            /\ Len(listings') = Len(listings)
            /\ last'.kind \in {"updated", "raised"}
            /\ last'.kind = "updated" =>
                 \A i \in DOMAIN listings :
                    IF listings[i].url = Val(last'.row.url)
                    THEN /\ listings'[i].last_seen_at = now
                         /\ listings'[i].scrape_run_id = run_id
                         /\ listings'[i].property_id = listings[i].property_id
                    ELSE listings'[i] = listings[i]]_vars

\* A Listing created by an earlier call has been re-scraped by this one: it
\* is still the only Listing row.
C3_Witness ==
    /\ last.kind = "updated"
    /\ Len(listings) = 1
    /\ Len(committed.listings) = 1
    /\ listings[1].scrape_run_id /= committed.listings[1].scrape_run_id

\* The Listing row that has the url of the record just processed.
ListingOf(ls, l) == ls[CHOOSE i \in DOMAIN ls : ls[i].url = Val(l.row.url)]

\* C4 as stated: an existing Listing takes price, bedrooms, bathrooms,
\* property_type and description from the latest record, whatever they are,
\* and its last_seen_at is refreshed.
C4_OverwriteAll ==
    [][(RowStep /\ last'.kind = "updated") =>
          LET new == ListingOf(listings', last')
              a == last'.row.attrs
          IN /\ new.price = ParsePrice(a.price)
             /\ new.bedrooms = ParseInt(a.bedrooms)
             /\ new.bathrooms = ParseInt(a.bathrooms)
             /\ new.property_type = a.property_type
             /\ new.description = DescriptionOf(last'.row)
             /\ new.last_seen_at = now]_vars

\* C4 as amended: price, bedrooms and bathrooms take the latest record's
\* parsed value when that value is not None, whatever is stored, and keep
\* the stored value otherwise; property_type and description stay as
\* stored; last_seen_at is refreshed.
C4_OverwriteNonNull ==
    [][(RowStep /\ last'.kind = "updated") =>
          LET old == ListingOf(listings, last')
              new == ListingOf(listings', last')
              a == last'.row.attrs
              Latest(parsed, stored) == IF parsed /= None THEN parsed ELSE stored
          IN /\ new.price = Latest(ParsePrice(a.price), old.price)
             /\ new.bedrooms = Latest(ParseInt(a.bedrooms), old.bedrooms)
             /\ new.bathrooms = Latest(ParseInt(a.bathrooms), old.bathrooms)
             /\ new.property_type = old.property_type
             /\ new.description = old.description
             /\ new.last_seen_at = now]_vars

\* A Listing created at 2,000 as a flat was re-scraped at 2,200 as a studio:
\* the price is the new one, the property_type the old one.
C4_Witness ==
    /\ last.kind = "updated"
    /\ ListingOf(listings, last).price = Some([n |-> 2200, k |-> 0])
    /\ ListingOf(listings, last).property_type = Some("Flat")
    /\ last.row.attrs.property_type = Some("Studio")

\* C5: every record counted as a success adds exactly one RawScrape row,
\* which references the Listing of that record's url.
C5_RawScrapePerSuccess ==
    [][(RowStep /\ Succeeded(last')) =>
          /\ Len(raw_scrapes') = Len(raw_scrapes) + 1
          /\ listings'[raw_scrapes'[Len(raw_scrapes')].listing_id].url
                = Val(last'.row.url)]_vars

\* C6: every record is counted once, as a success or as an error, and every
\* call returns (total, success, error) with total the number of records and
\* success + error = total, the numbers its committed ScrapeRun stores.
C6_BatchAccounting ==
    /\ success + error = idx
    /\ idx <= total
    /\ (pc = "idle" /\ batches > 0) =>
         /\ idx = total
         /\ outcome = "returned"
         /\ ret = <<total, success, error>>
         /\ run_id \in DOMAIN committed.scrape_runs
         /\ committed.scrape_runs[run_id].total_listings = total
         /\ committed.scrape_runs[run_id].success_count = success
         /\ committed.scrape_runs[run_id].error_count = error

\* C7: a record without a url is counted as one error and nothing else
\* changes: no table, no success, and the session stays as it was, so the
\* loop goes on with the next record; a call whose only errors are records
\* without a url returns (total, total - missing, missing).
C7_MissingUrl ==
    [][/\ (RowStep /\ (last'.row.url = None \/ last'.row.url = Some(""))) =>
            /\ last'.kind = "nourl"
            /\ error' = error + 1
            /\ success' = success
            /\ pc' = "loop"
            /\ UNCHANGED <<properties, listings, raw_scrapes, scrape_runs,
                           committed, active>>
       /\ (EndStep /\ error = nourl) =>
            /\ outcome' = "returned"
            /\ ret' = <<total, total - nourl, nourl>>]_vars

\* Two records of which one had no url: (2, 1, 1), and the other record has
\* its Property and Listing.
C7_Witness ==
    /\ outcome = "returned"
    /\ ret = <<2, 1, 1>>
    /\ nourl = 1
    /\ Len(committed.properties) = 1
    /\ Len(committed.listings) = 1
    /\ committed.listings[1].scrape_run_id = run_id

\* C8: whatever fails for single records, the call returns its triple.
C8_AlwaysReturnsTriple ==
    (pc = "idle" /\ batches > 0) =>
        (outcome = "returned" /\ ret = <<total, success, error>>)

\* C9: after a call, nothing of a record whose flush failed is in the
\* store, and every record that was counted as a success has its Listing
\* in the committed store.
C9_FailureIsolation ==
    /\ last.kind = "flush" => RowsWithUrl(listings, Val(last.row.url)) = {}
    /\ (pc = "idle" /\ batches > 0) =>
          \A u \in okUrls : RowsWithUrl(committed.listings, u) /= {}

\* C10: the finalized run has finished_at set and the two counters stored,
\* its status is "success" exactly when error is 0 and otherwise
\* "completed_with_errors"; this is the row that is committed.
FinalizedRun(r) ==
    /\ r.finished_at /= None
    /\ r.status \in {"success", "completed_with_errors"}
    /\ r.status = "success" <=> r.error_count = 0

C11_RunLifecycle ==
    [][/\ (pc = "idle" /\ pc' = "loop") => idx' = 0
       /\ pc' = "loop" =>
            /\ scrape_run' /= None
            /\ Val(scrape_run').status = "running"
            /\ Val(scrape_run').finished_at = None
            /\ active' => /\ run_id' \in DOMAIN scrape_runs'
                          /\ scrape_runs'[run_id'] = Val(scrape_run')
       /\ (pc = "loop" /\ scrape_run' /= scrape_run) =>
            /\ EndStep
            /\ idx = total
            /\ Val(scrape_run).status = "running"
            /\ Val(scrape_run').status /= "running"
       /\ \A i \in DOMAIN scrape_runs :
            scrape_runs[i].status /= "running" =>
               /\ i \in DOMAIN scrape_runs'
               /\ scrape_runs'[i] = scrape_runs[i]
       /\ \A i \in DOMAIN committed.scrape_runs :
            /\ i \in DOMAIN committed'.scrape_runs
            /\ committed'.scrape_runs[i] = committed.scrape_runs[i]]_vars

\* The second call is in its loop with a record processed, its run is
\* "running", and the run of the first call is stored as finalized.
C11_Witness ==
    /\ pc = "loop"
    /\ batches = 2
    /\ idx = 1
    /\ run_id = 2
    /\ active
    /\ scrape_runs[2].status = "running"
    /\ scrape_runs[1].status = "completed_with_errors"
    /\ committed.scrape_runs = <<scrape_runs[1]>>

\* C12: after a call, every record it counted as a success has its Listing in
\* the store, and the Listings that reference the call's ScrapeRun are
\* exactly those of the records it counted as a success.
C12_RunTagging ==
    (pc = "idle" /\ batches > 0) =>
       /\ \A u \in okUrls :
            \E i \in DOMAIN committed.listings :
               /\ committed.listings[i].url = u
               /\ committed.listings[i].scrape_run_id = run_id
       /\ \A i \in DOMAIN committed.listings :
            committed.listings[i].scrape_run_id = run_id =>
               committed.listings[i].url \in okUrls

\* C13: no committed ScrapeRun row is "running", and the committed store
\* changes only in the step that ends a call that returns, when it takes the
\* run row, the data rows and the final counters together; a call that
\* raises leaves the committed store as it was before the call.
C13_NoRunningCommitted ==
    [][/\ \A i \in DOMAIN committed'.scrape_runs :
            committed'.scrape_runs[i].status /= "running"
       /\ committed' /= committed =>
            /\ EndStep
            /\ outcome' = "returned"
            /\ committed'.properties = properties
            /\ committed'.listings = listings
            /\ committed'.raw_scrapes = raw_scrapes
            /\ committed'.scrape_runs[run_id].success_count = success
            /\ committed'.scrape_runs[run_id].error_count = error
            /\ Len(committed'.scrape_runs) = Len(committed.scrape_runs) + 1
       /\ (EndStep /\ outcome' = "raised") => committed' = committed]_vars

\* A call has raised after a record was written and a flush failed: the
\* committed store has the first call's run and rows, and nothing else.
C13_Witness ==
    /\ pc = "idle"
    /\ batches = 2
    /\ outcome = "raised"
    /\ Len(committed.scrape_runs) = 1
    /\ committed.scrape_runs[1].status = "success"
    /\ Len(committed.listings) = 1

\* The Property row a successfully processed record maps to: the one of its
\* Listing.
PropertyOf(ps, ls, l) == ls[CHOOSE i \in DOMAIN ls : ls[i].url = Val(l.row.url)].property_id

EarliestNonNull(x, y) == IF x /= None THEN x ELSE y

\* C23: the first record of a call created a Property and the second record
\* of the call maps to the same Property: after the second, each attribute
\* of the Property is the first record's value when that is not null, and
\* the second record's value otherwise.
C23_InBatchOrder ==
    [][(/\ RowStep
        /\ idx = 1
        /\ last.kind = "created"
        /\ RowsWithAddress(committed.properties, AddressOf(last.row)) = {}
        /\ Succeeded(last')
        /\ PropertyOf(properties', listings', last') = PropertyOf(properties, listings, last))
       => LET p == properties'[PropertyOf(properties, listings, last)]
              a == last.row.attrs
              b == last'.row.attrs
          IN /\ p.property_type = EarliestNonNull(a.property_type, b.property_type)
             /\ p.bedrooms = EarliestNonNull(ParseInt(a.bedrooms), ParseInt(b.bedrooms))
             /\ p.bathrooms = EarliestNonNull(ParseInt(a.bathrooms), ParseInt(b.bathrooms))
             /\ p.floor_area_sqm = EarliestNonNull(a.floor_area_sqm, b.floor_area_sqm)
             /\ p.year_built = EarliestNonNull(a.year_built, b.year_built)
             /\ p.energy_rating = EarliestNonNull(a.energy_rating, b.energy_rating)
             /\ p.refurb_intensity =
                   EarliestNonNull(a.refurb_intensity, b.refurb_intensity)]_vars

\* The references of the rows of a store.
References(ps, ls, rs, runs) ==
    /\ \A i \in DOMAIN ls :
          /\ ls[i].property_id \in DOMAIN ps
          /\ ps[ls[i].property_id].full_address /= ""
          /\ ls[i].scrape_run_id \in DOMAIN runs
          /\ ls[i].url /= ""
    /\ \A i \in DOMAIN rs : rs[i].listing_id \in DOMAIN ls

\* address, else title, else url, of a record with a url.
AddressElseTitleElseUrl(row) ==
    IF row.place.address \notin {None, Some("")} THEN Val(row.place.address)
    ELSE IF row.place.title \notin {None, Some("")} THEN Val(row.place.title)
    ELSE Val(row.url)

\* C25: in the transaction and in the committed store, every Listing has an
\* existing Property, whose full_address is not empty, and an existing
\* ScrapeRun, and every RawScrape an existing Listing; a record that creates
\* a Listing gives it a Property whose full_address is the record's address,
\* else title, else url, and a RawScrape of that Listing; a record without
\* url adds no Listing and no RawScrape.
C25_ReferentialIntegrity ==
    [][/\ References(properties', listings', raw_scrapes', scrape_runs')
       /\ References(committed'.properties, committed'.listings,
                     committed'.raw_scrapes, committed'.scrape_runs)
       /\ (RowStep /\ last'.kind = "created") =>
             /\ properties'[listings'[Len(listings')].property_id].full_address
                   = AddressElseTitleElseUrl(last'.row)
             /\ listings'[Len(listings')].scrape_run_id = run_id
             /\ raw_scrapes'[Len(raw_scrapes')].listing_id = Len(listings')
       /\ (RowStep /\ last'.row.url \in {None, Some("")}) =>
             /\ Len(listings') = Len(listings)
             /\ Len(raw_scrapes') = Len(raw_scrapes)]_vars

\* Two calls have committed a Listing each; one of the Properties has the
\* url of its record as full_address.
C25_Witness ==
    /\ pc = "idle"
    /\ Len(committed.scrape_runs) = 2
    /\ Len(committed.listings) = 2
    /\ Len(committed.raw_scrapes) = 2
    /\ committed.listings[2].scrape_run_id = 2
    /\ \E i \in DOMAIN committed.properties :
          committed.properties[i].full_address = "u2"

\* C26: a record whose url has a Listing leaves the Listing's price,
\* bedrooms and bathrooms as stored where the record has no parsable value
\* for them, and leaves its property_type, description, listing_type, portal
\* and first_seen_at as stored whatever the record holds.
C26_RescrapeKeeps ==
    [][(RowStep /\ ~MissingUrl(last'.row)
          /\ RowsWithUrl(listings, Val(last'.row.url)) /= {}) =>
          \A i \in RowsWithUrl(listings, Val(last'.row.url)) :
             LET old == listings[i]
                 new == listings'[i]
                 a == last'.row.attrs
             IN /\ ParsePrice(a.price) = None => new.price = old.price
                /\ ParseInt(a.bedrooms) = None => new.bedrooms = old.bedrooms
                /\ ParseInt(a.bathrooms) = None => new.bathrooms = old.bathrooms
                /\ new.property_type = old.property_type
                /\ new.description = old.description
                /\ new.listing_type = old.listing_type
                /\ new.portal = old.portal
                /\ new.first_seen_at = old.first_seen_at]_vars

\* A Listing of an earlier call was re-scraped by a record that carries only
\* the url, in a call for another portal: price, type and portal are those
\* of the first call.
C26_Witness ==
    /\ last.kind = "updated"
    /\ last.row.attrs = AttrsTimeout
    /\ args.portal = "zoopla"
    /\ ListingOf(listings, last).price = Some([n |-> 2000, k |-> 0])
    /\ ListingOf(listings, last).bedrooms = Some(2)
    /\ ListingOf(listings, last).portal = "rightmove"
    /\ ListingOf(listings, last).first_seen_at < ListingOf(listings, last).last_seen_at

\* C27: a record whose url has a Listing leaves the number of Property,
\* Listing and RawScrape rows, the property of every Listing and the
\* full_address of every Property as they were, whatever its address is.
C27_RescrapeKeepsIdentity ==
    [][(RowStep /\ ~MissingUrl(last'.row)
          /\ RowsWithUrl(listings, Val(last'.row.url)) /= {}) =>
          /\ last'.kind \in {"updated", "raised"}
          /\ Len(properties') = Len(properties)
          /\ Len(listings') = Len(listings)
          /\ Len(raw_scrapes') = Len(raw_scrapes)
          /\ \A i \in DOMAIN listings : listings'[i].property_id = listings[i].property_id
          /\ \A i \in DOMAIN properties :
                properties'[i].full_address = properties[i].full_address]_vars

\* A Listing ingested with the address a1 was re-scraped by a record without
\* address and title, whose address is its url: still one Property, a1.
C27_Witness ==
    /\ last.kind = "updated"
    /\ AddressOf(last.row) = "u1"
    /\ Len(properties) = 1
    /\ Len(listings) = 1
    /\ Len(raw_scrapes) = 1
    /\ properties[listings[1].property_id].full_address = "a1"

\* first_seen_at stays, last_seen_at does not go back, for the rows of ps
\* in qs.
SeenMonotone(ps, qs) ==
    \A i \in DOMAIN ps :
       /\ i \in DOMAIN qs
       /\ qs[i].first_seen_at = ps[i].first_seen_at
       /\ qs[i].last_seen_at >= ps[i].last_seen_at

SeenOrdered(ps) == \A i \in DOMAIN ps : ps[i].last_seen_at >= ps[i].first_seen_at

\* C29: in the committed store, and in the transaction as long as it is not
\* rolled back, the first_seen_at of a Property or Listing never changes and
\* its last_seen_at never decreases; last_seen_at >= first_seen_at in every
\* row; a record counted as a success that matches an existing Listing
\* sets the last_seen_at of the Listing and of its Property to the time of
\* the match, and one that matches an existing Property by its address sets
\* that Property's.
C29_SeenMonotone ==
    [][/\ SeenMonotone(committed.properties, committed'.properties)
       /\ SeenMonotone(committed.listings, committed'.listings)
       /\ (RowStep /\ last'.kind /= "flush") =>
             /\ SeenMonotone(properties, properties')
             /\ SeenMonotone(listings, listings')
       /\ SeenOrdered(properties') /\ SeenOrdered(listings')
       /\ SeenOrdered(committed'.properties) /\ SeenOrdered(committed'.listings)
       /\ (RowStep /\ last'.kind = "updated") =>
             /\ ListingOf(listings', last').last_seen_at = now
             /\ properties'[ListingOf(listings', last').property_id].last_seen_at = now
       /\ (RowStep /\ last'.kind = "created"
             /\ RowsWithAddress(properties, AddressOf(last'.row)) /= {}) =>
             \A i \in RowsWithAddress(properties, AddressOf(last'.row)) :
                properties'[i].last_seen_at = now]_vars

\* A Listing and its Property, created by the first call, were matched by
\* the second: first_seen_at is the time of the first call, last_seen_at the
\* time of the second, in the committed store too.
C29_Witness ==
    /\ pc = "idle"
    /\ batches = 2
    /\ outcome = "returned"
    /\ Len(committed.listings) = 1
    /\ committed.listings[1].first_seen_at < committed.listings[1].last_seen_at
    /\ committed.properties[1].first_seen_at < committed.properties[1].last_seen_at
    /\ committed.listings[1].last_seen_at = now

\* ------------------------------- pipelines/build_rent_benchmarks.py
\* Listings in the store at once, and calls of build_rent_benchmarks.
MaxBenchListings == 3
MaxBuilds == 2

\* The Property rows the listings join to: city, submarket_id and
\* floor_area_sqm are what the query reads of them.
BenchProperties ==
    << [city |-> Some("London"), submarket_id |-> None, floor_area_sqm |-> Some(50)],
       [city |-> Some("London"), submarket_id |-> None, floor_area_sqm |-> Some(100)],
       [city |-> None, submarket_id |-> None, floor_area_sqm |-> Some(50)],
       [city |-> Some("London"), submarket_id |-> None, floor_area_sqm |-> Some(0)],
       [city |-> Some("London"), submarket_id |-> None, floor_area_sqm |-> None] >>

BenchListing(pid, lt, price, beds) ==
    [property_id |-> pid, listing_type |-> lt, price |-> price,
     bedrooms |-> beds, property_type |-> Some("Flat")]

\* The Listing rows that can be in the store: rents of 2,000 and 2,200 on the
\* properties above, one without a price, one without bedrooms, and a sale.
BenchListingPool ==
    { BenchListing(1, "rent", Some([n |-> 2000, k |-> 0]), Some(1)),
      BenchListing(1, "rent", Some([n |-> 2200, k |-> 0]), Some(1)),
      BenchListing(2, "rent", Some([n |-> 2000, k |-> 0]), Some(1)),
      BenchListing(3, "rent", Some([n |-> 2000, k |-> 0]), Some(1)),
      BenchListing(4, "rent", Some([n |-> 2000, k |-> 0]), Some(1)),
      BenchListing(5, "rent", Some([n |-> 2000, k |-> 0]), Some(1)),
      BenchListing(1, "rent", None, Some(1)),
      BenchListing(1, "rent", Some([n |-> 2000, k |-> 0]), None),
      BenchListing(1, "sale", Some([n |-> 2000, k |-> 0]), Some(1)) }

\* The values of min_listings_per_bucket that the calls are made with.
MinListingsValues == 2..MaxBenchListings

\* seed_benchmarks.py seed_rent_benchmarks: the rows an application start
\* puts into an empty table.
SeedRentBenchmark(beds, type, lo, hi) ==
    [country |-> "UK", city |-> "London", submarket_id |-> None,
     bedrooms |-> Some(beds), property_type |-> Some(type),
     rent_psqm_min |-> [n |-> lo, d |-> 1], rent_psqm_max |-> [n |-> hi, d |-> 1],
     currency |-> "GBP", source |-> "Internal rent benchmark", as_of_date |-> 0]

SeedRentBenchmarks ==
    SetToBag({ SeedRentBenchmark(1, "Flat", 30, 45),
               SeedRentBenchmark(2, "Flat", 28, 40),
               SeedRentBenchmark(3, "House", 25, 38) })

RECURSIVE GCD(_, _)
GCD(a, b) == IF b = 0 THEN a ELSE GCD(b, a % b)

RECURSIVE Pow10(_)
Pow10(k) == IF k = 0 THEN 1 ELSE 10 * Pow10(k - 1)

\* Listing.price / Property.floor_area_sqm (lines 37-38), kept as the exact
\* fraction n / d in lowest terms.
RentPsqm(l) ==
    LET num == Val(l.price).n
        den == Val(BenchProperties[l.property_id].floor_area_sqm) * Pow10(Val(l.price).k)
        g == GCD(num, den)
    IN [n |-> num \div g, d |-> den \div g]

RatioLeq(x, y) == x.n * y.d <= y.n * x.d

\* func.min and func.max over a non-empty set of fractions.
MinRatio(S) == CHOOSE x \in S : \A y \in S : RatioLeq(x, y)
MaxRatio(S) == CHOOSE x \in S : \A y \in S : RatioLeq(y, x)

\* The where clause of lines 42-47 on a joined row.
Qualifies(l) ==
    /\ l.listing_type = "rent"
    /\ l.price /= None
    /\ BenchProperties[l.property_id].floor_area_sqm /= None
    /\ Val(BenchProperties[l.property_id].floor_area_sqm) > 0

\* The group_by of lines 48-53.
GroupKey(l) ==
    << BenchProperties[l.property_id].city,
       BenchProperties[l.property_id].submarket_id, l.bedrooms, l.property_type >>

Members(ls, key) ==
    {i \in DOMAIN ls : Qualifies(ls[i]) /\ GroupKey(ls[i]) = key}

Groups(ls) == {GroupKey(ls[i]) : i \in {j \in DOMAIN ls : Qualifies(ls[j])}}

\* Line 70 with the comparison turned round: a group of exactly the
\* threshold is skipped.
BigGroupsAbove(ls, min_listings_per_bucket) ==
    {key \in Groups(ls) : Cardinality(Members(ls, key)) > min_listings_per_bucket}

\* Lines 68-72: the groups that are not skipped.
BigGroups(ls, min_listings_per_bucket) ==
    {key \in Groups(ls) : ~(Cardinality(Members(ls, key)) < min_listings_per_bucket)}

\* Lines 62-67 and 74-85: the RentBenchmark of one group.
BenchmarkRow(ls, key, t) ==
    [country |-> "UK",
     city |-> IF TruthyStr(key[1]) THEN Val(key[1]) ELSE "Unknown",
     submarket_id |-> key[2], bedrooms |-> key[3], property_type |-> key[4],
     rent_psqm_min |-> MinRatio({RentPsqm(ls[i]) : i \in Members(ls, key)}),
     rent_psqm_max |-> MaxRatio({RentPsqm(ls[i]) : i \in Members(ls, key)}),
     currency |-> "GBP", source |-> "rightmove_rent_scraper_v1", as_of_date |-> t]

\* Lines 61-87: the rows the loop adds, one per group that is not skipped.
BuildRows(ls, min_listings_per_bucket, t) ==
    LET G == BigGroups(ls, min_listings_per_bucket)
    IN [r \in {BenchmarkRow(ls, key, t) : key \in G} |->
           Cardinality({key \in G : BenchmarkRow(ls, key, t) = r})]

\* The call without the delete of line 28.
KeptBenchmarks(table) == table

\* Line 28: session.query(RentBenchmark).delete().
ClearedBenchmarks(table) == EmptyBag

\* The buckets of a table: its rows without the time stamp.
Buckets(table) ==
    {[r EXCEPT !.as_of_date = 0] : r \in BagToSet(table)}

\* A Listing was committed to the store (ingest.py lines 184-203, 230).
AddBenchListing ==
    /\ Len(bench_listings) < MaxBenchListings
    /\ \E l \in BenchListingPool : bench_listings' = Append(bench_listings, l)
    /\ UNCHANGED <<rent_benchmarks, created, builds, prev_build>>
    /\ UNCHANGED outsideBench

\* build_rent_benchmarks(min_listings_per_bucket), lines 26-91; the time of
\* the call is the number of the call.
BuildRentBenchmarks ==
    /\ builds < MaxBuilds
    /\ \E m \in MinListingsValues :
         /\ rent_benchmarks' =
               ClearedBenchmarks(rent_benchmarks) (+) BuildRows(bench_listings, m, builds + 1)
         /\ created' = Cardinality(BigGroups(bench_listings, m))
         /\ prev_build' =
               Some([listings |-> bench_listings, min |-> m,
                     buckets |-> Buckets(rent_benchmarks'),
                     seen |-> BagToSet(rent_benchmarks) \cup
                              (IF prev_build = None THEN {} ELSE Val(prev_build).seen)])
    /\ builds' = builds + 1
    /\ UNCHANGED bench_listings
    /\ UNCHANGED outsideBench

\* The store is empty; the table is empty or holds the seeded rows.
BenchInit ==
    /\ OutsideBenchIdle
    /\ bench_listings = <<>>
    /\ rent_benchmarks \in {EmptyRentBenchmarks, SeedRentBenchmarks}
    /\ created = 0
    /\ builds = 0
    /\ prev_build = None

BenchNext == AddBenchListing \/ BuildRentBenchmarks

SpecBench == BenchInit /\ [][BenchNext]_vars

BuildStep == builds' = builds + 1

\* The rent listings with a price and a positive floor area that fall into
\* the bucket of listing l.
SameBucket(ls, l) ==
    {i \in DOMAIN ls :
        /\ ls[i].listing_type = "rent"
        /\ ls[i].price /= None
        /\ BenchProperties[ls[i].property_id].floor_area_sqm \notin {None, Some(0)}
        /\ BenchProperties[ls[i].property_id].city = BenchProperties[l.property_id].city
        /\ BenchProperties[ls[i].property_id].submarket_id
              = BenchProperties[l.property_id].submarket_id
        /\ ls[i].bedrooms = l.bedrooms
        /\ ls[i].property_type = l.property_type}

\* The rows of a table that carry the bucket of listing l.
RowsOfBucket(table, l) ==
    {r \in BagToSet(table) :
        /\ r.city = (IF BenchProperties[l.property_id].city = None THEN "Unknown"
                     ELSE Val(BenchProperties[l.property_id].city))
        /\ r.submarket_id = BenchProperties[l.property_id].submarket_id
        /\ r.bedrooms = l.bedrooms
        /\ r.property_type = l.property_type}

\* C14: after a call with threshold m, a bucket with fewer than m qualifying
\* rent listings has no RentBenchmark row, and a bucket with at least m has
\* exactly one, whose min and max are the least and the greatest
\* price / floor_area_sqm of its members; listings that are no rent, have no
\* price or no positive floor area are members of no bucket.
C14_BenchmarkThreshold ==
    [][BuildStep =>
         \A l \in BenchListingPool :
            LET M == SameBucket(bench_listings, l)
                R == RowsOfBucket(rent_benchmarks', l)
                m == Val(prev_build').min
                q(i) == RentPsqm(bench_listings[i])
            IN /\ Cardinality(M) < m => R = {}
               /\ Cardinality(M) >= m =>
                    /\ Cardinality(R) = 1
                    /\ \A r \in R :
                         /\ CopiesIn(r, rent_benchmarks') = 1
                         /\ \E i \in M : r.rent_psqm_min = q(i)
                         /\ \E i \in M : r.rent_psqm_max = q(i)
                         /\ \A i \in M : /\ RatioLeq(r.rent_psqm_min, q(i))
                                          /\ RatioLeq(q(i), r.rent_psqm_max)]_vars

\* A bucket of three rents (20, 40 and 44 per sqm) at threshold 3: one row
\* with min 20 and max 44.
C14_Witness ==
    /\ builds > 0
    /\ Val(prev_build).min = 3
    /\ Val(prev_build).listings = bench_listings
    /\ created = 1
    /\ \E r \in BagToSet(rent_benchmarks) :
         /\ r.rent_psqm_min = [n |-> 20, d |-> 1]
         /\ r.rent_psqm_max = [n |-> 44, d |-> 1]

\* C15: after a call the table holds only rows that this call created (its
\* time stamp and its source), as many as the count it returned, and no row
\* that was there before; a call on the same listings with the same
\* threshold as the call before yields the same set of buckets.
C15_FullRebuild ==
    [][BuildStep =>
         /\ \A r \in BagToSet(rent_benchmarks') :
               /\ r.as_of_date = builds'
               /\ r.source = "rightmove_rent_scraper_v1"
               /\ r \notin BagToSet(rent_benchmarks)
         /\ created' = BagCardinality(rent_benchmarks')
         /\ (/\ prev_build /= None
             /\ Val(prev_build).listings = bench_listings
             /\ Val(prev_build).min = Val(prev_build').min)
              => Buckets(rent_benchmarks') = Val(prev_build).buckets]_vars

\* The second call on unchanged listings: the table was seeded before the
\* first call and held the first call's row before the second; now it holds
\* one row, of the second call.
C15_Witness ==
    /\ builds = 2
    /\ created = 1
    /\ BagCardinality(rent_benchmarks) = 1
    /\ \A r \in BagToSet(rent_benchmarks) : r.as_of_date = 2
    /\ \E r \in Val(prev_build).seen : r.source = "Internal rent benchmark"
    /\ \E r \in Val(prev_build).seen : r.as_of_date = 1
    /\ Val(prev_build).listings = bench_listings

\* ------------- build_rent_benchmarks beside a reader on another session
\* The rent listings in the store during the rebuilds: up to
\* MaxBenchListings rents of one bucket.
RebuildListings ==
    UNION {[1..n -> {BenchListing(1, "rent", Some([n |-> 2000, k |-> 0]), Some(1)),
                     BenchListing(1, "rent", Some([n |-> 2200, k |-> 0]), Some(1))}] :
              n \in 0..MaxBenchListings}

\* A reader that sees what the rebuilding transaction has done so far.
UncommittedBenchmarks == IF build_pc = "idle" THEN rent_benchmarks ELSE build_session.table

\* What a select on another session returns: each session has its own
\* connection and transaction (connection.py lines 22-27 and 48), and the
\* database shows it the committed rows.
VisibleBenchmarks == rent_benchmarks

\* Lines 26-28: the session begins, the delete-all runs in its transaction.
RebuildDelete ==
    /\ build_pc = "idle"
    /\ builds < MaxBuilds
    /\ \E m \in MinListingsValues : build_min' = m
    /\ build_session' = [table |-> ClearedBenchmarks(rent_benchmarks),
                         new |-> EmptyRentBenchmarks]
    /\ build_pc' = "deleted"
    /\ UNCHANGED <<read, benchVars>>
    /\ UNCHANGED outsideRebuild

\* Lines 31-87: the select and the loop; session.add leaves the new rows
\* with the session (autoflush is off), they reach the table with the commit.
RebuildAdd ==
    /\ build_pc = "deleted"
    /\ build_session' =
          [build_session EXCEPT !.new = BuildRows(bench_listings, build_min, builds + 1)]
    /\ created' = Cardinality(BigGroups(bench_listings, build_min))
    /\ build_pc' = "added"
    /\ UNCHANGED <<build_min, read, bench_listings, rent_benchmarks, builds, prev_build>>
    /\ UNCHANGED outsideRebuild

\* Lines 89-91 and the exit of get_session: the new rows are flushed and the
\* transaction is committed.
RebuildCommit ==
    /\ build_pc = "added"
    /\ rent_benchmarks' = build_session.table (+) build_session.new
    /\ build_session' = [table |-> EmptyRentBenchmarks, new |-> EmptyRentBenchmarks]
    /\ builds' = builds + 1
    /\ build_pc' = "idle"
    /\ UNCHANGED <<build_min, read, bench_listings, created, prev_build>>
    /\ UNCHANGED outsideRebuild

\* Another session reads the table (the dashboard, the API).
ReadRentBenchmarks ==
    /\ read' = Some([during |-> build_pc, rows |-> VisibleBenchmarks,
                     session |-> build_session.table])
    /\ UNCHANGED <<build_pc, build_min, build_session, benchVars>>
    /\ UNCHANGED outsideRebuild

\* The table is empty or seeded; the store holds the rent listings.
RebuildInit ==
    /\ OutsideRebuildIdle
    /\ RebuildIdle
    /\ bench_listings \in RebuildListings
    /\ rent_benchmarks \in {EmptyRentBenchmarks, SeedRentBenchmarks}
    /\ created = 0
    /\ builds = 0
    /\ prev_build = None

RebuildNext == RebuildDelete \/ RebuildAdd \/ RebuildCommit \/ ReadRentBenchmarks

SpecRebuild == RebuildInit /\ [][RebuildNext]_vars

\* C24 as stated: a read of another session between the delete-all and the
\* commit sees the table as the rebuilding session has left it, empty, also
\* when the table held rows before the rebuild.
C24_TransientlyEmpty ==
    (read /= None /\ Val(read).during /= "idle") =>
        /\ Val(read).rows = Val(read).session
        /\ Val(read).rows = EmptyBag

\* C24 as amended: every read of another session returns the committed
\* table; the committed table changes only in the step of the commit, from
\* the table before the rebuild to the rebuilt one; a read between the
\* delete-all and the commit returns the table as it was before the rebuild.
C24_ReadsCommitted ==
    [][/\ read' /= read => Val(read').rows = rent_benchmarks
       /\ rent_benchmarks' /= rent_benchmarks =>
             /\ build_pc = "added" /\ build_pc' = "idle"
             /\ rent_benchmarks' = BuildRows(bench_listings, build_min, builds')
       /\ build_pc' /= "idle" => rent_benchmarks' = rent_benchmarks]_vars

\* A read after the delete-all of a rebuild of the seeded table: the
\* session's table is empty, the reader got the three seeded rows.
C24_Witness ==
    /\ read /= None
    /\ Val(read).during = "deleted"
    /\ Val(read).session = EmptyBag
    /\ Val(read).rows = SeedRentBenchmarks
    /\ build_pc = "added"
    /\ BagCardinality(build_session.new) = 1

\* ------------------------------ scraper/sources/rightmove_scraper.py
\* Lines of a page text.
MaxLines == 3

\* datetime.now().year.
CurrentYear == 2026

\* The lines a page text is made of (lower case; the extractors ignore case).
AreaLines == {"79 sq m", "850 sq ft"}
YearLines == {"built in 1990", "built in 2099", "circa 1990"}
EpcLines == {"epc", "epc: c", "epc h", "epc rating d"}
TextLines ==
    AreaLines \cup YearLines \cup EpcLines \cup
    {"c+", "full refurbishment", "unmodernised", "scope for improvement",
     "newly refurbished", "description"}

\* The lines of the key facts of a page: the labels, values that stand under
\* a label, and lines that name a count of rooms.
RoomLines ==
    {"bedrooms", "bathrooms", "3", "flat", "2 bedrooms", "1 bathroom",
     "4 bedrooms 2 bathrooms"}

\* What \d+ finds first in a line (lines 322 and 337).
FirstDigits(line) ==
    CASE line = "3" -> Some("3")
      [] line = "2 bedrooms" -> Some("2")
      [] line = "1 bathroom" -> Some("1")
      [] line = "4 bedrooms 2 bathrooms" -> Some("4")
      [] line = "79 sq m" -> Some("79")
      [] line = "850 sq ft" -> Some("850")
      [] line \in {"built in 1990", "circa 1990"} -> Some("1990")
      [] line = "built in 2099" -> Some("2099")
      [] OTHER -> None

\* What (\d+)\s*bedrooms? and (\d+)\s*bathrooms? capture in a line (lines
\* 328 and 343).
CountBefore(line, word) ==
    CASE line = "2 bedrooms" /\ word = "bedroom" -> Some("2")
      [] line = "1 bathroom" /\ word = "bathroom" -> Some("1")
      [] line = "4 bedrooms 2 bathrooms" /\ word = "bedroom" -> Some("4")
      [] line = "4 bedrooms 2 bathrooms" /\ word = "bathroom" -> Some("2")
      [] OTHER -> None

\* The number that a line writes in front of a unit of area, as the regexes
\* of lines 153-154 and 388-403 capture it.
AreaFigure(line) ==
    CASE line = "79 sq m" -> Some([unit |-> "sq m", value |-> <<"7", "9">>])
      [] line = "850 sq ft" -> Some([unit |-> "sq ft", value |-> <<"8", "5", "0">>])
      [] OTHER -> None

\* The words and the year of a line that the regexes of lines 158-160 and
\* 412-422 match.
YearFigure(line) ==
    CASE line = "built in 1990" ->
           Some([intro |-> "built in", year |-> <<"1", "9", "9", "0">>])
      [] line = "built in 2099" ->
           Some([intro |-> "built in", year |-> <<"2", "0", "9", "9">>])
      [] line = "circa 1990" ->
           Some([intro |-> "circa", year |-> <<"1", "9", "9", "0">>])
      [] OTHER -> None

\* The first letter a to g of a line.
FirstAG(line) ==
    CASE line \in {"850 sq ft", "full refurbishment"} -> Some("f")
      [] line \in {"built in 1990", "built in 2099"} -> Some("b")
      [] line \in {"circa 1990", "c+", "scope for improvement"} -> Some("c")
      [] line \in EpcLines \cup {"newly refurbished"} -> Some("e")
      [] line \in {"unmodernised", "description"} -> Some("d")
      [] OTHER -> None

\* The first letter a to g of a line after its "epc".
FirstAGAfterEpc(line) ==
    CASE line = "epc: c" -> Some("c")
      [] line = "epc rating d" -> Some("a")
      [] OTHER -> None

\* What [A-G][+-]? matches at the start of a line.
GradeAtStart(line) ==
    CASE line = "c+" -> Some("c+")
      [] line \in {"built in 1990", "built in 2099"} -> Some("b")
      [] line = "circa 1990" -> Some("c")
      [] line \in EpcLines -> Some("e")
      [] line = "full refurbishment" -> Some("f")
      [] line = "description" -> Some("d")
      [] OTHER -> None

\* What \s*[:-]?\s*([A-G][+-]?) matches right after the "epc" of a line that
\* goes on after it.
GradeAfterEpc(line) ==
    CASE line = "epc: c" -> Some("c")
      [] OTHER -> None

\* str.upper() on the captured grades.
Upper(g) ==
    CASE g = "a" -> "A" [] g = "b" -> "B" [] g = "c" -> "C" [] g = "d" -> "D"
      [] g = "e" -> "E" [] g = "f" -> "F" [] g = "g" -> "G" [] g = "c+" -> "C+"

\* re.search finds the leftmost match: the least of the indices of the
\* lines that match, 0 when none does.
FirstLine(hits) ==
    IF hits = {} THEN 0 ELSE CHOOSE i \in hits : \A j \in hits : i <= j

\* val * 0.092903 (lines 191 and 407).
SqftToSqm(val) == NormFloat(val.n * 92903, val.k + 6)

\* _clean_number: the commas go, then float().
CleanNumber(num_str) == FloatOf(SelectSeq(num_str, LAMBDA c : c /= ","))

\* re.search of one of AREA_PATTERNS: the value captured, None without match.
AreaSearch(text, unit) ==
    LET Hit(line) == AreaFigure(line) /= None /\ Val(AreaFigure(line)).unit = unit
        i == FirstLine({j \in DOMAIN text : Hit(text[j])})
    IN IF i = 0 THEN None ELSE Some(Val(AreaFigure(text[i])).value)

\* AREA_PATTERNS, lines 152-155: square feet first.
AREA_PATTERNS == <<"sq ft", "sq m">>

\* extract_floor_area_sqm, lines 172-196: the first pattern in the order of
\* AREA_PATTERNS whose match has a number.
RECURSIVE ExtractAreaFrom(_, _)
ExtractAreaFrom(text, k) ==
    IF k > Len(AREA_PATTERNS) THEN None
    ELSE LET m == AreaSearch(text, AREA_PATTERNS[k])
             val == IF m = None THEN None ELSE CleanNumber(Val(m))
         IN IF val = None THEN ExtractAreaFrom(text, k + 1)
            ELSE IF AREA_PATTERNS[k] = "sq ft" THEN Some(SqftToSqm(Val(val)))
            ELSE val

extract_floor_area_sqm(text) ==
    IF text = <<>> THEN None ELSE ExtractAreaFrom(text, 1)

\* YEAR_PATTERNS, lines 157-161.
YEAR_PATTERNS == <<"built in", "built circa", "circa">>

\* re.search of a year pattern: the year captured, None without match.
YearSearch(text, intros) ==
    LET Hit(line) == YearFigure(line) /= None /\ Val(YearFigure(line)).intro \in intros
        i == FirstLine({j \in DOMAIN text : Hit(text[j])})
    IN IF i = 0 THEN None ELSE Some(DigitsToNat(Val(YearFigure(text[i])).year))

\* Line 212.
YearInRange(year) == 1800 <= year /\ year <= CurrentYear

\* extract_year_built, lines 199-216: the first pattern whose first match is
\* a year in range.
RECURSIVE ExtractYearFrom(_, _)
ExtractYearFrom(text, k) ==
    IF k > Len(YEAR_PATTERNS) THEN None
    ELSE LET year == YearSearch(text, {YEAR_PATTERNS[k]})
         IN IF year /= None /\ YearInRange(Val(year)) THEN year
            ELSE ExtractYearFrom(text, k + 1)

extract_year_built(text) ==
    IF text = <<>> THEN None ELSE ExtractYearFrom(text, 1)

\* extract_energy_rating, lines 219-232: after the first "epc" the first
\* letter a to g, wherever it stands, in upper case.
extract_energy_rating(text) ==
    LET i == FirstLine({n \in DOMAIN text : text[n] \in EpcLines})
        rest == IF i = 0 THEN <<>> ELSE SubSeq(text, i + 1, Len(text))
        j == FirstLine({n \in DOMAIN rest : FirstAG(rest[n]) /= None})
        m == IF i = 0 THEN None
             ELSE IF FirstAGAfterEpc(text[i]) /= None THEN FirstAGAfterEpc(text[i])
             ELSE IF j = 0 THEN None ELSE FirstAG(rest[j])
    IN IF m /= None /\ Upper(Val(m)) \in {"A", "B", "C", "D", "E", "F", "G"}
       THEN Some(Upper(Val(m))) ELSE None

\* The keyword lists of infer_refurb_intensity, lines 245-275.
full_keywords ==
    {"requires complete refurbishment", "in need of complete refurbishment",
     "in need of modernisation", "requires modernisation", "full refurbishment",
     "total renovation"}
medium_keywords ==
    {"scope for improvement", "some updating required", "tired condition",
     "outdated", "dated interior"}
light_keywords ==
    {"recently refurbished", "newly refurbished", "newly renovated",
     "recently renovated", "brand new kitchen", "new bathroom"}

\* any(k in t for k in keywords): a keyword stands in one line.
AnyIn(keywords, text) == \E i \in DOMAIN text : text[i] \in keywords

\* The three tests of a classifier with the light keywords tested first.
ClassifyLightFirst(text, full, medium, light) ==
    IF AnyIn(light, text) THEN "light"
    ELSE IF AnyIn(medium, text) THEN "medium"
    ELSE IF AnyIn(full, text) THEN "full"
    ELSE "none"

\* The three tests in their order: lines 253-279 and lines 476-483.
Classify(text, full, medium, light) ==
    IF AnyIn(full, text) THEN "full"
    ELSE IF AnyIn(medium, text) THEN "medium"
    ELSE IF AnyIn(light, text) THEN "light"
    ELSE "none"

\* infer_refurb_intensity, lines 235-279.
infer_refurb_intensity(text) ==
    IF text = <<>> THEN "none"
    ELSE Classify(text, full_keywords, medium_keywords, light_keywords)

\* parse_from_body_text, lines 348-373: the lines after the first line that
\* starts with "description", up to the first line with a stop marker.
stop_markers ==
    {"council tax", "energy performance certificate",
     "utilities, rights & restrictions", "check how much you can borrow", "about "}

DescriptionLines(body) ==
    LET i == FirstLine({n \in DOMAIN body : body[n] = "description"})
        rest == IF i = 0 THEN <<>> ELSE SubSeq(body, i + 1, Len(body))
        j == FirstLine({n \in DOMAIN rest : rest[n] \in stop_markers})
    IN IF j = 0 THEN rest ELSE SubSeq(rest, 1, j - 1)

\* Lines 320-325 and 335-340: the first line that is the label and has a
\* line with digits after it gives the digits of that line.
LabelledCount(lines, label) ==
    LET i == FirstLine({n \in DOMAIN lines :
                          /\ lines[n] = label
                          /\ n + 1 <= Len(lines)
                          /\ FirstDigits(lines[n + 1]) /= None})
    IN IF i = 0 THEN None ELSE FirstDigits(lines[i + 1])

\* Lines 327-331 and 342-346: the first line that names a count.
FallbackCount(lines, word) ==
    LET i == FirstLine({n \in DOMAIN lines : CountBefore(lines[n], word) /= None})
    IN IF i = 0 THEN None ELSE CountBefore(lines[i], word)

\* The two passes with the second in front.
ParsedCountFallbackFirst(lines, label, word) ==
    IF FallbackCount(lines, word) /= None THEN FallbackCount(lines, word)
    ELSE LabelledCount(lines, label)

\* Lines 319-331 and 334-346: the second pass runs only when the first
\* found nothing.
ParsedCount(lines, label, word) ==
    IF LabelledCount(lines, label) /= None THEN LabelledCount(lines, label)
    ELSE FallbackCount(lines, word)

\* _parse_number, lines 378-385.
ParseNumber(str) ==
    LET s_clean == SelectSeq(str, IsDigitOrDot)
    IN IF s_clean = <<>> THEN None ELSE FloatOf(s_clean)

\* Lines 387-407: square metres first; square feet only without a
\* square-metre match; a value of 0 counts as none.
ParsedFloorArea(body) ==
    LET m2_match == AreaSearch(body, "sq m")
        ft_match == AreaSearch(body, "sq ft")
        val == ParseNumber(Val(IF m2_match /= None THEN m2_match ELSE ft_match))
    IN IF m2_match /= None
       THEN (IF val /= None /\ Val(val).n /= 0 THEN val ELSE None)
       ELSE IF ft_match /= None /\ val /= None /\ Val(val).n /= 0
       THEN Some(SqftToSqm(Val(val)))
       ELSE None

\* Lines 412-427: "built ..." before "circa"; the year as matched.
ParsedYearBuilt(body) ==
    LET year_match == YearSearch(body, {"built in", "built"})
    IN IF year_match /= None THEN year_match ELSE YearSearch(body, {"circa"})

\* Lines 432-438: the first "epc" that a grade follows, the grade with its
\* sign, in upper case.
ParsedEnergyRating(body) ==
    LET Graded(i) ==
            IF GradeAfterEpc(body[i]) /= None THEN GradeAfterEpc(body[i])
            ELSE IF body[i] = "epc" /\ i < Len(body) THEN GradeAtStart(body[i + 1])
            ELSE None
        hits == {i \in DOMAIN body : body[i] \in EpcLines /\ Graded(i) /= None}
    IN IF hits = {} THEN None
       ELSE Some(Upper(Val(Graded(FirstLine(hits)))))

\* The keyword lists of parse_from_body_text, lines 445-474.
full_terms ==
    {"in need of modernisation", "in need of modernization",
     "requires modernisation", "requires modernization", "complete refurbishment",
     "full refurbishment", "total refurbishment", "unmodernised", "unmodernized",
     "shell condition"}
medium_terms ==
    {"requires some updating", "scope to improve", "scope for improvement",
     "dated condition", "requires updating", "needs updating"}
light_terms ==
    {"newly refurbished", "recently refurbished", "newly renovated",
     "recently renovated", "immaculate condition", "turn-key", "turnkey",
     "ready to move in"}

\* Line 443: description or body_text.
RefurbText(description, body) == IF description /= <<>> THEN description ELSE body

\* parse_from_body_text, lines 285-495: of the tuple it returns the counts
\* of rooms, the description and the four construction fields.
parse_from_body_text(body) ==
    [bedrooms |-> ParsedCount(body, "bedrooms", "bedroom"),
     bathrooms |-> ParsedCount(body, "bathrooms", "bathroom"),
     description |-> DescriptionLines(body),
     floor_area_sqm |-> ParsedFloorArea(body),
     year_built |-> ParsedYearBuilt(body),
     energy_rating |-> ParsedEnergyRating(body),
     refurb_intensity |->
         Classify(RefurbText(DescriptionLines(body), body),
                  full_terms, medium_terms, light_terms)]

\* What the page's description elements hold when the text gave none
\* (lines 627-630): nothing, or a description.
DomDescriptions == {<<>>, <<"newly refurbished">>}

\* scrape_property, lines 610-656: the record's counts of rooms, description
\* and construction fields; combined_text is the local of line 633.
ScrapedRecord(body, dom) ==
    LET description == IF DescriptionLines(body) /= <<>> THEN DescriptionLines(body)
                       ELSE dom
        combined_text == description \o body
    IN [bedrooms |-> parse_from_body_text(body).bedrooms,
        bathrooms |-> parse_from_body_text(body).bathrooms,
        description |-> description,
        combined_text |-> combined_text,
        floor_area_sqm |-> extract_floor_area_sqm(combined_text),
        year_built |-> extract_year_built(combined_text),
        energy_rating |-> extract_energy_rating(combined_text),
        refurb_intensity |-> infer_refurb_intensity(combined_text)]

\* parse_from_body_text is called on the page text.
ParseFromBodyText ==
    /\ body_parsed = None
    /\ body_parsed' = Some(parse_from_body_text(body_text))
    /\ UNCHANGED <<body_text, record>>
    /\ UNCHANGED outsideText

\* scrape_property is called on the page.
ScrapeProperty ==
    /\ record = None
    /\ \E dom \in DomDescriptions : record' = Some(ScrapedRecord(body_text, dom))
    /\ UNCHANGED <<body_text, body_parsed>>
    /\ UNCHANGED outsideText

\* A page text of up to MaxLines lines: of the lines about the building, or
\* of the lines of the key facts.
TextInit ==
    /\ OutsideTextIdle
    /\ body_text \in UNION {[1..n -> TextLines] : n \in 0..MaxLines}
                     \cup UNION {[1..n -> RoomLines] : n \in 0..MaxLines}
    /\ body_parsed = None
    /\ record = None

TextNext == ParseFromBodyText \/ ScrapeProperty

SpecText == TextInit /\ [][TextNext]_vars

\* The figures of a text in one unit, as numbers.
AreaValues(text, unit) ==
    {CleanNumber(Val(AreaFigure(text[i])).value) :
        i \in {j \in DOMAIN text : /\ AreaFigure(text[j]) /= None
                                   /\ Val(AreaFigure(text[j])).unit = unit}}

SqmPriority(text, floor_area_sqm) ==
    /\ (AreaValues(text, "sq m") /= {} /\ AreaValues(text, "sq ft") /= {}) =>
           floor_area_sqm \in AreaValues(text, "sq m")
    /\ (AreaValues(text, "sq m") = {} /\ AreaValues(text, "sq ft") /= {}) =>
           floor_area_sqm \in {Some(SqftToSqm(Val(v))) : v \in AreaValues(text, "sq ft")}

\* C16: for a text with a square-metre figure and a square-feet figure the
\* floor area is a square-metre figure of the text as written, and the
\* square-feet figure times 0.092903 only for a text without a square-metre
\* figure; for the value parse_from_body_text returns and for the value of
\* the scraped record.
C16_SqmPriority ==
    /\ body_parsed /= None => SqmPriority(body_text, Val(body_parsed).floor_area_sqm)
    /\ record /= None =>
          SqmPriority(Val(record).combined_text, Val(record).floor_area_sqm)

YearBounds(year_built) ==
    year_built = None \/ (1800 <= Val(year_built) /\ Val(year_built) <= CurrentYear)

\* C17: the year_built of both extractors is absent or a year from 1800 to
\* the current year.
C17_YearBounds ==
    /\ body_parsed /= None => YearBounds(Val(body_parsed).year_built)
    /\ record /= None => YearBounds(Val(record).year_built)

\* What a classifier that tests full, medium, light in this order returns
\* for a text.
FirstBucket(text, full, medium, light, refurb_intensity) ==
    LET Has(keywords) == \E i \in DOMAIN text : text[i] \in keywords
    IN /\ Has(full) => refurb_intensity = "full"
       /\ (~Has(full) /\ Has(medium)) => refurb_intensity = "medium"
       /\ (~Has(full) /\ ~Has(medium) /\ Has(light)) => refurb_intensity = "light"
       /\ (~Has(full) /\ ~Has(medium) /\ ~Has(light)) => refurb_intensity = "none"

\* C18: each classifier returns the first of full, medium, light that has one
\* of its keywords in the text it classifies, else "none": a text with a
\* full keyword is "full" whatever else it holds, one with a medium and a
\* light keyword and no full keyword is "medium".  parse_from_body_text
\* classifies the description, or the whole text when there is none;
\* scrape_property classifies description and text together.
C18_RefurbPriority ==
    /\ body_parsed /= None =>
          FirstBucket(IF Val(body_parsed).description /= <<>>
                      THEN Val(body_parsed).description ELSE body_text,
                      full_terms, medium_terms, light_terms,
                      Val(body_parsed).refurb_intensity)
    /\ record /= None =>
          FirstBucket(Val(record).combined_text,
                      full_keywords, medium_keywords, light_keywords,
                      Val(record).refurb_intensity)

\* A text with a light, a medium and a full keyword, in this order, is
\* "full" for both classifiers.
C18_Witness ==
    /\ body_text = <<"newly refurbished", "scope for improvement", "full refurbishment">>
    /\ body_parsed /= None
    /\ Val(body_parsed).refurb_intensity = "full"
    /\ record /= None
    /\ Val(record).refurb_intensity = "full"

EnergyDomain(energy_rating) ==
    energy_rating = None \/ Val(energy_rating) \in {"A", "B", "C", "D", "E", "F", "G"}

\* C19: the energy rating of both extractors is absent or one upper-case
\* letter from A to G.
C19_EnergyDomain ==
    /\ body_parsed /= None => EnergyDomain(Val(body_parsed).energy_rating)
    /\ record /= None => EnergyDomain(Val(record).energy_rating)

\* The label pairs of a text: a line that is the label, and after it a line
\* with a number.
LabelPairs(text, label) ==
    {i \in DOMAIN text :
        text[i] = label /\ i < Len(text) /\ FirstDigits(text[i + 1]) /= None}

\* The lines of a text that name a count of rooms.
CountLines(text, word) == {i \in DOMAIN text : CountBefore(text[i], word) /= None}

Earliest(S) == CHOOSE i \in S : \A j \in S : i <= j

TwoPass(text, label, word, count) ==
    /\ LabelPairs(text, label) /= {} =>
          count = FirstDigits(text[Earliest(LabelPairs(text, label)) + 1])
    /\ (LabelPairs(text, label) = {} /\ CountLines(text, word) /= {}) =>
          count = CountBefore(text[Earliest(CountLines(text, word))], word)
    /\ (LabelPairs(text, label) = {} /\ CountLines(text, word) = {}) => count = None

\* C22: for bedrooms and for bathrooms, a text with a label pair gives the
\* number of its first label pair, whatever lines name a count before it; a
\* text without a label pair gives the count of the first line that names
\* one; a text with neither gives nothing.
C22_TwoPass ==
    body_parsed /= None =>
       /\ TwoPass(body_text, "bedrooms", "bedroom", Val(body_parsed).bedrooms)
       /\ TwoPass(body_text, "bathrooms", "bathroom", Val(body_parsed).bathrooms)

\* "2 bedrooms" stands before the label pair BEDROOMS / 3: the result is 3;
\* there is no label pair for the bathrooms, none is named: absent.
C22_Witness ==
    /\ body_text = <<"2 bedrooms", "bedrooms", "3">>
    /\ body_parsed /= None
    /\ Val(body_parsed).bedrooms = Some("3")
    /\ Val(body_parsed).bathrooms = None

\* --------------------------------------- database/ingest.py _parse_price
\* Characters of a price text.
MaxPriceChars == 4

\* The characters price texts are made of: digits, the separators, and
\* characters that are neither.
PriceChars == {"1", "5", ",", ".", "£", "G"}

\* The arguments of _parse_price: None, every text of up to MaxPriceChars
\* characters (str() of a number is such a text), and the two texts of the
\* specification.
PriceInputs ==
    {None}
    \cup {Some(str) : str \in UNION {[1..n -> PriceChars] : n \in 0..MaxPriceChars}}
    \cup {Some(<<"£", "1", ",", "2", "3", "4", ",", "5", "0", "0">>),
          Some(<<"G", "u", "i", "d", "e", " ", "p", "r", "i", "c", "e">>)}

\* _parse_price with the ValueError of float() not caught.
PriceOutcomeUncaught(raw) ==
    LET str == IF raw = None THEN <<>> ELSE SelectSeq(Val(raw), IsDigitOrDot)
    IN [called |-> TRUE, raised |-> (str /= <<>> /\ FloatOf(str) = None),
        value |-> ParsePrice(raw)]

\* One call of _parse_price, lines 25-36: float() raises ValueError on a text
\* that is no number, the except clause of line 35 returns None for it.
PriceOutcome(raw) ==
    [called |-> TRUE, raised |-> FALSE, value |-> ParsePrice(raw)]

ParsePriceCall ==
    /\ ~price_out.called
    /\ price_out' = PriceOutcome(price_raw)
    /\ UNCHANGED price_raw
    /\ UNCHANGED outsidePrice

PriceInit ==
    /\ OutsidePriceIdle
    /\ price_raw \in PriceInputs
    /\ price_out = [called |-> FALSE, raised |-> FALSE, value |-> None]

PriceNext == ParsePriceCall

SpecPrice == PriceInit /\ [][PriceNext]_vars

\* What is left of a price text without the characters that are neither a
\* digit nor a decimal point.
Remaining(raw) ==
    IF raw = None THEN <<>>
    ELSE SelectSeq(Val(raw), LAMBDA c : c \in DigitChars \cup {"."})

\* The remaining characters write a number: at least one digit, at most one
\* decimal point.
WritesNumber(str) ==
    /\ \E i \in DOMAIN str : str[i] \in DigitChars
    /\ Cardinality({i \in DOMAIN str : str[i] = "."}) <= 1

\* The number they write: the digits before the point, and the digits after
\* it as tenths, hundredths, and so on.
NumberWritten(str) ==
    LET dot == IF \E i \in DOMAIN str : str[i] = "."
               THEN CHOOSE i \in DOMAIN str : str[i] = "." ELSE Len(str) + 1
        whole == SubSeq(str, 1, dot - 1)
        frac == SubSeq(str, dot + 1, Len(str))
    IN NormFloat(DigitsToNat(whole) * Pow10(Len(frac)) + DigitsToNat(frac), Len(frac))

\* C20 as stated: the call never raises, returns no value when nothing
\* remains, and otherwise returns the number written by what remains.
C20_PriceParsing ==
    price_out.called =>
       /\ ~price_out.raised
       /\ Remaining(price_raw) = <<>> => price_out.value = None
       /\ Remaining(price_raw) /= <<>> =>
             /\ price_out.value /= None
             /\ price_out.value = Some(NumberWritten(Remaining(price_raw)))

\* C20 as amended: the call never raises; it returns no value when nothing
\* remains and when what remains writes no number (no digit, or more than
\* one decimal point), and otherwise the number written by what remains.
C20_PriceParsingNumber ==
    price_out.called =>
       /\ ~price_out.raised
       /\ Remaining(price_raw) = <<>> => price_out.value = None
       /\ (Remaining(price_raw) /= <<>> /\ ~WritesNumber(Remaining(price_raw))) =>
             price_out.value = None
       /\ WritesNumber(Remaining(price_raw)) =>
             price_out.value = Some(NumberWritten(Remaining(price_raw)))

\* "£1,234,500" gave 1234500.
C20_Witness ==
    /\ price_out.called
    /\ price_raw = Some(<<"£", "1", ",", "2", "3", "4", ",", "5", "0", "0">>)
    /\ price_out.value = Some([n |-> 1234500, k |-> 0])

\* --------- scraper/sources/rightmove_scraper.py fetch_links, scrape_property
\* Cards on the result pages that loaded.
MaxCards == 3

\* Line 12.  Texts are sequences of pieces.
BASE == <<"https://", "www.rightmove.co.uk">>

\* What the href attribute of a card can be: missing, empty, a property
\* with and without a query or a fragment, and a link to something else.
Hrefs ==
    {None,
     Some(<<>>),
     Some(<<"/properties/", "1">>),
     Some(<<"/properties/", "1", "?", "channel=RES_BUY">>),
     Some(<<"/properties/", "2", "#/">>),
     Some(<<"/property-for-sale/", "find.html">>)}

\* Line 541: if href and "/properties/" in href.
IsPropertyHref(href) ==
    /\ href /= None
    /\ Val(href) /= <<>>
    /\ \E i \in DOMAIN Val(href) : Val(href)[i] = "/properties/"

\* href.split("?")[0].
BeforeQuery(str) ==
    LET q == FirstLine({i \in DOMAIN str : str[i] = "?"})
    IN IF q = 0 THEN str ELSE SubSeq(str, 1, q - 1)

\* Line 542: clean = BASE + href.split("?")[0].
CleanLink(href) == BASE \o BeforeQuery(Val(href))

\* Lines 539-543: the links appended, in the order of the cards.
RECURSIVE CardLinks(_)
CardLinks(hrefs) ==
    IF hrefs = <<>> THEN <<>>
    ELSE LET rest == CardLinks(SubSeq(hrefs, 1, Len(hrefs) - 1))
             href == hrefs[Len(hrefs)]
         IN IF IsPropertyHref(href) THEN Append(rest, CleanLink(href)) ELSE rest

\* Line 549: list(set(links)), the elements of the set in any order.
ListOfSet(S) ==
    {l \in [1..Cardinality(S) -> S] : \A i, j \in DOMAIN l : l[i] = l[j] => i = j}

\* Lines 564-580: the record of a page that timed out.
TimeoutRecord(url) ==
    [url |-> url, source |-> "v4.8_textparse_timeout", error |-> Some("timeout")]

\* Lines 642-656: the record of a page that loaded.
PropertyRecord(url) ==
    [url |-> url, source |-> "v4.8_textparse_construction", error |-> None]

\* fetch_links, lines 502-549.
FetchLinks ==
    /\ links = None
    /\ \E l \in ListOfSet({CardLinks(page_hrefs)[i] : i \in DOMAIN CardLinks(page_hrefs)}) :
          links' = Some(l)
    /\ UNCHANGED <<page_hrefs, scraped>>
    /\ UNCHANGED outsideScrape

\* scrape_property on one of the links, lines 555-656: the page loads or
\* times out.
ScrapeLink ==
    /\ links /= None
    /\ scraped = None
    /\ \E i \in DOMAIN Val(links), timed_out \in BOOLEAN :
          scraped' = Some(IF timed_out THEN TimeoutRecord(Val(links)[i])
                          ELSE PropertyRecord(Val(links)[i]))
    /\ UNCHANGED <<page_hrefs, links>>
    /\ UNCHANGED outsideScrape

\* The cards of the result pages.
ScrapeInit ==
    /\ OutsideScrapeIdle
    /\ page_hrefs \in UNION {[1..n -> Hrefs] : n \in 0..MaxCards}
    /\ links = None
    /\ scraped = None

ScrapeNext == FetchLinks \/ ScrapeLink

SpecScrape == ScrapeInit /\ [][ScrapeNext]_vars

\* C21: every link of the returned list starts with "https://" and stands
\* in the list once; the record of scraping one of them has that link as its
\* url and "dom" or "ocr" as its source.
C21_RecordShape ==
    /\ links /= None =>
          /\ \A i \in DOMAIN Val(links) : Val(links)[i][1] = "https://"
          /\ \A i, j \in DOMAIN Val(links) : Val(links)[i] = Val(links)[j] => i = j
    /\ scraped /= None =>
          /\ \E i \in DOMAIN Val(links) : Val(scraped).url = Val(links)[i]
          /\ Val(scraped).source \in {"dom", "ocr"}

\* ---------- database/crud.py get_or_create_property, get_or_create_market
\* Calls of the two functions per behaviour.
MaxResolverCalls == 3

\* The arguments of the calls: one address and one market name, with a
\* postcode or a code, another one, or none.
ResolverAddresses == {"a1"}
ResolverPostcodes == {None, Some("W11"), Some("SW1")}
ResolverTypes == {None, Some("Flat")}
MarketNames == {"London"}
MarketCodes == {None, Some("LON"), Some("LDN")}

\* The records of the ingest calls between them: the address of the calls,
\* under two urls.
ResolverRows ==
    {[url |-> u, place |-> [address |-> Some("a1"), title |-> None],
      attrs |-> AttrsFlat, dbfail |-> "none"] : u \in Urls}

\* crud.py lines 116-118: the rows the select matches.
PropertyMatches(full_address, postcode) ==
    {i \in DOMAIN properties :
        /\ properties[i].full_address = full_address
        /\ TruthyStr(postcode) => properties[i].postcode = postcode}

\* crud.py lines 121-141 with the defaults for bedrooms, bathrooms, city and
\* submarket: the property_type is filled, and then last_seen_at refreshed.
RefreshProperty(p, property_type, t) ==
    IF TruthyStr(property_type) /\ ~TruthyStr(p.property_type)
    THEN [p EXCEPT !.property_type = property_type, !.last_seen_at = t]
    ELSE p

\* crud.py lines 143-153.
CreateProperty(full_address, postcode, property_type, t) ==
    [full_address |-> full_address, postcode |-> postcode, city |-> None,
     property_type |-> property_type, bedrooms |-> None, bathrooms |-> None,
     floor_area_sqm |-> None, year_built |-> None, energy_rating |-> None,
     refurb_intensity |-> None, first_seen_at |-> t, last_seen_at |-> t]

\* get_or_create_property, crud.py lines 102-156, in a session of its own
\* that commits on return: scalar_one_or_none raises when the select
\* matches several rows, and nothing is written then.
GetOrCreateProperty ==
    /\ pc = "idle"
    /\ resolver_calls < MaxResolverCalls
    /\ \E full_address \in ResolverAddresses, postcode \in ResolverPostcodes,
          property_type \in ResolverTypes :
         LET ms == PropertyMatches(full_address, postcode)
             id == IF ms = {} THEN Len(properties) + 1 ELSE CHOOSE i \in ms : TRUE
         IN IF Cardinality(ms) > 1
            THEN /\ resolved' = [fn |-> "get_or_create_property", raised |-> TRUE, id |-> 0]
                 /\ UNCHANGED <<properties, committed>>
            ELSE /\ resolved' = [fn |-> "get_or_create_property", raised |-> FALSE, id |-> id]
                 /\ properties' =
                       IF ms = {}
                       THEN Append(properties,
                                   CreateProperty(full_address, postcode, property_type, now))
                       ELSE [properties EXCEPT ![id] = RefreshProperty(@, property_type, now)]
                 /\ committed' = [committed EXCEPT !.properties = properties']
    /\ resolver_calls' = resolver_calls + 1
    /\ UNCHANGED <<pc, now, batches, records, args, total, idx, success, error,
                   scrape_run, run_id, active, listings, raw_scrapes, scrape_runs,
                   outcome, ret, last, nourl, okUrls, markets>>
    /\ UNCHANGED outsideResolver

\* crud.py lines 58-60: the rows the select matches.
MarketMatches(name, code) ==
    {i \in DOMAIN markets :
        /\ markets[i].name = name
        /\ TruthyStr(code) => markets[i].code = code}

\* get_or_create_market, crud.py lines 52-69, in a session of its own that
\* commits on return.
GetOrCreateMarket ==
    /\ pc = "idle"
    /\ resolver_calls < MaxResolverCalls
    /\ \E name \in MarketNames, code \in MarketCodes :
         LET ms == MarketMatches(name, code)
         IN IF Cardinality(ms) > 1
            THEN /\ resolved' = [fn |-> "get_or_create_market", raised |-> TRUE, id |-> 0]
                 /\ UNCHANGED markets
            ELSE IF ms /= {}
            THEN /\ resolved' = [fn |-> "get_or_create_market", raised |-> FALSE,
                                 id |-> CHOOSE i \in ms : TRUE]
                 /\ UNCHANGED markets
            ELSE /\ resolved' = [fn |-> "get_or_create_market", raised |-> FALSE,
                                 id |-> Len(markets) + 1]
                 /\ markets' = Append(markets, [name |-> name, country |-> "UK", code |-> code])
    /\ resolver_calls' = resolver_calls + 1
    /\ UNCHANGED ingestVars
    /\ UNCHANGED outsideResolver

ResolverInit == IngestInit /\ ResolverIdle /\ OutsideResolverIdle

ResolverNext ==
    \/ StartBatch
    \/ \E row \in ResolverRows : ProcessRowOf(row)
    \/ Finalize
    \/ GetOrCreateProperty
    \/ GetOrCreateMarket

SpecResolver == ResolverInit /\ [][ResolverNext]_vars

\* The rows of a table that a look-up by a name, refined by a second column
\* when a value for it is given, matches.
LookUp(rows, name, second) ==
    {i \in DOMAIN rows : rows[i][1] = name /\ (second /= None => rows[i][2] = second)}

Unambiguous(rows) ==
    \A i \in DOMAIN rows, second \in {None} \cup {rows[j][2] : j \in DOMAIN rows} :
        Cardinality(LookUp(rows, rows[i][1], second)) <= 1

PropertyKeys(ps) == [i \in DOMAIN ps |-> <<ps[i].full_address, ps[i].postcode>>]
MarketKeys(ms) == [i \in DOMAIN ms |-> <<ms[i].name, ms[i].code>>]

\* C28: every look-up by full_address, with or without a postcode, matches
\* at most one Property row, in the transaction and in the committed store,
\* and every look-up by name, with or without a code, at most one Market
\* row; no call of the two functions raises, and no record of an ingest call
\* whose transaction is alive is counted as an error for a failed look-up.
C28_UnambiguousLookUps ==
    /\ Unambiguous(PropertyKeys(properties))
    /\ Unambiguous(PropertyKeys(committed.properties))
    /\ Unambiguous(MarketKeys(markets))
    /\ ~resolved.raised
    /\ last.kind = "raised" => ~active

\* ------------- ingest_bulk_results on two sessions at the same time
\* Records in the input list of each of the two calls.
MaxOverlapRecords == 2

\* The records, by what decides the rows they create: url and address, and
\* whether the database rejects the flush of a row created for them.
OverlapRecords ==
    {[url |-> "u1", address |-> "a1", dbfail |-> FALSE],
     [url |-> "u2", address |-> "a1", dbfail |-> FALSE],
     [url |-> "u1", address |-> "a2", dbfail |-> FALSE],
     [url |-> "u2", address |-> "a2", dbfail |-> TRUE]}

\* A database without a write lock.
CanWriteAlways(s) == TRUE

\* connection.py lines 11-19: the store is one SQLite file.  The first write
\* of a transaction takes the file's write lock, which one connection holds
\* at a time, until the commit or the rollback.
CanWrite(s) == writer \in {0, s}

\* The rows a session's selects see: the committed ones and its own.
SeenProperties(s) == store_keys.properties \o sess_tx[s].properties
SeenListings(s) == store_keys.listings \o sess_tx[s].listings

HasUrl(ls, url) == \E i \in DOMAIN ls : ls[i].url = url
HasAddress(ps, address) == \E i \in DOMAIN ps : ps[i] = address

\* Lines 75-85: the session begins and flushes the ScrapeRun, its first write.
BeginBatch(s) ==
    /\ sess_pc[s] = "idle"
    /\ CanWrite(s)
    /\ writer' = s
    /\ sess_pc' = [sess_pc EXCEPT ![s] = "loop"]
    /\ UNCHANGED <<sess_rows, sess_idx, sess_active, sess_tx, store_keys>>
    /\ UNCHANGED outsideOverlap

\* Line 85 while the other session holds the write lock, and the wait for it
\* runs out: "database is locked" is raised outside the try block, the call
\* raises.
BeginLocked(s) ==
    /\ sess_pc[s] = "idle"
    /\ ~CanWrite(s)
    /\ sess_pc' = [sess_pc EXCEPT ![s] = "raised"]
    /\ UNCHANGED <<sess_rows, sess_idx, sess_active, sess_tx, store_keys, writer>>
    /\ UNCHANGED outsideOverlap

\* Lines 87-222 for the next record of a session: the select by url, the
\* select by address, and the inserts; a failed flush rolls the session's
\* transaction back, which gives the write lock up.
ProcessOverlapRow(s) ==
    /\ sess_pc[s] = "loop"
    /\ sess_idx[s] < Len(sess_rows[s])
    /\ LET r == sess_rows[s][sess_idx[s] + 1]
           found == HasUrl(SeenListings(s), r.url)
       IN IF ~sess_active[s] \/ found
          THEN UNCHANGED <<sess_active, sess_tx, writer>>
          ELSE IF r.dbfail
          THEN /\ sess_active' = [sess_active EXCEPT ![s] = FALSE]
               /\ sess_tx' = [sess_tx EXCEPT ![s] = NoKeys]
               /\ writer' = IF writer = s THEN 0 ELSE writer
          ELSE /\ sess_tx' =
                     [sess_tx EXCEPT
                        ![s].properties =
                            IF HasAddress(SeenProperties(s), r.address) THEN @
                            ELSE Append(@, r.address),
                        ![s].listings = Append(@, [url |-> r.url, address |-> r.address])]
               /\ UNCHANGED <<sess_active, writer>>
    /\ sess_idx' = [sess_idx EXCEPT ![s] = @ + 1]
    /\ UNCHANGED <<sess_pc, sess_rows, store_keys>>
    /\ UNCHANGED outsideOverlap

\* Lines 224-232 and the exit of get_session: the commit writes the
\* transaction's rows and gives the write lock up; after a rollback it raises.
CommitBatch(s) ==
    /\ sess_pc[s] = "loop"
    /\ sess_idx[s] = Len(sess_rows[s])
    /\ IF sess_active[s]
       THEN /\ store_keys' =
                 [properties |-> store_keys.properties \o sess_tx[s].properties,
                  listings |-> store_keys.listings \o sess_tx[s].listings]
            /\ writer' = IF writer = s THEN 0 ELSE writer
            /\ sess_pc' = [sess_pc EXCEPT ![s] = "returned"]
       ELSE /\ sess_pc' = [sess_pc EXCEPT ![s] = "raised"]
            /\ UNCHANGED <<store_keys, writer>>
    /\ sess_tx' = [sess_tx EXCEPT ![s] = NoKeys]
    /\ UNCHANGED <<sess_rows, sess_idx, sess_active>>
    /\ UNCHANGED outsideOverlap

\* Two calls, each with a list of up to MaxOverlapRecords records, on an
\* empty store.
OverlapInit ==
    /\ OutsideOverlapIdle
    /\ sess_pc = [s \in Sessions |-> "idle"]
    /\ sess_rows \in [Sessions -> UNION {[1..n -> OverlapRecords] : n \in 0..MaxOverlapRecords}]
    /\ sess_idx = [s \in Sessions |-> 0]
    /\ sess_active = [s \in Sessions |-> TRUE]
    /\ sess_tx = [s \in Sessions |-> NoKeys]
    /\ store_keys = NoKeys
    /\ writer = 0

OverlapNext ==
    \E s \in Sessions :
        BeginBatch(s) \/ BeginLocked(s) \/ ProcessOverlapRow(s) \/ CommitBatch(s)

SpecOverlap == OverlapInit /\ [][OverlapNext]_vars

\* C30: the committed store never holds two Listings with one url nor two
\* Properties with one full_address, whatever the two calls' lists are and
\* however their steps are interleaved; the two calls are never both inside
\* their loops with a live transaction.
C30_UniqueUnderOverlap ==
    /\ \A i, j \in DOMAIN store_keys.listings :
          store_keys.listings[i].url = store_keys.listings[j].url => i = j
    /\ \A i, j \in DOMAIN store_keys.properties :
          store_keys.properties[i] = store_keys.properties[j] => i = j
    /\ \A s, t \in Sessions :
          (/\ sess_pc[s] = "loop" /\ sess_active[s]
           /\ sess_pc[t] = "loop" /\ sess_active[t]) => s = t

\* Both calls had the record (u1, a1) and both returned: one Listing, one
\* Property.
C30_Witness ==
    /\ \A s \in Sessions :
          /\ sess_pc[s] = "returned"
          /\ \E i \in DOMAIN sess_rows[s] :
                sess_rows[s][i].url = "u1" /\ sess_rows[s][i].address = "a1"
    /\ Len(store_keys.listings) = 1
    /\ store_keys.properties = <<"a1">>

=============================================================================
